---------------------------- MODULE Spec2Model ----------------------------
(***************************************************************************)
(* A model of the mummy serialization library.                             *)
(*                                                                         *)
(*   src/python/mummy/serialization.py   the current wire format's codec   *)
(*   src/mummy/schemas.py                the schema layer                  *)
(*                                                                         *)
(* Python objects live in a heap: a sequence of nodes [k, v] addressed by  *)
(* their index, a container's payload being the indices of its children,   *)
(* as a Python container holds references.  A list that contains itself    *)
(* is a node whose child is its own index.  The schema layer works on      *)
(* values written as trees, a container holding its items themselves.     *)
(*                                                                         *)
(* pure_python_dumps and _loads are recursive; the model keeps their call  *)
(* stacks in the state (estk, dstk) and takes one call or one return per   *)
(* step.                                                                   *)
(***************************************************************************)
EXTENDS Integers, Sequences, FiniteSets, TLC

VARIABLES
    scen,    \* which entry point the run exercises: "codec", "craft", "tags"
    heap,    \* the caller's objects
    root,    \* index in heap of the object handed to dumps
    dflt,    \* the default argument of dumps
    lzf,     \* whether the lzf module was importable (serialization.py:7-10)
    pc,      \* where the run is
    estk,    \* call stack of pure_python_dumps
    out,     \* what dumps returned, or the exception it raised
    dlog,    \* heap indices default has been called with, in call order
    tcode,   \* the result of _get_type_code, when that is all the run calls
    wire,    \* the bytes handed to loads
    via,     \* how wire was obtained from out
    dstk,    \* call stack of _loads
    data,    \* the buffer _loads works on (after the envelope is removed)
    oheap,   \* objects built by loads
    dec,     \* what loads returned, or the exception it raised
    dec0,    \* result of the previous loads of the same payload
    SCHEMA,  \* the SCHEMA attribute of a Message subclass
    cls,     \* what the class statement of that subclass came to
    msg,     \* an instance of it: message, _validation, _transformation
    ret      \* the last call on the class or the instance, and its outcome

schema_vars == <<SCHEMA, cls, msg, ret>>

vars == <<scen, heap, root, dflt, lzf, pc, estk, out, dlog, tcode, wire, via,
          dstk, data, oheap, dec, dec0, schema_vars>>

---------------------------------------------------------------------------
(* Sequences of bytes *)

Byte == 0..255

Reverse(s) == [i \in 1..Len(s) |-> s[Len(s) + 1 - i]]

Rep(b, n) == [i \in 1..n |-> b]

\* the element of a set of one
Only(S) == CHOOSE x \in S : TRUE

Min2(a, b) == IF a <= b THEN a ELSE b

Max2(a, b) == IF a >= b THEN a ELSE b

\* Python's x[a:b] on a string, 0-based, for 0 <= a: clipped to the string
Slice(x, a, b) ==
    LET hi == Min2(b, Len(x))
    IN  IF a >= hi THEN <<>> ELSE SubSeq(x, a + 1, hi)

\* Python's x[a:]
SliceFrom(x, a) == Slice(x, a, Len(x))

\* concatenation of a sequence of sequences f[lo..hi], by halving
RECURSIVE Join(_, _, _)
Join(f, lo, hi) ==
    IF lo > hi THEN <<>>
    ELSE IF lo = hi THEN f[lo]
    ELSE LET mid == (lo + hi) \div 2
         IN  Join(f, lo, mid) \o Join(f, mid + 1, hi)

JoinAll(f) == Only({Join(g, 1, Len(g)) : g \in {<<>> \o f}})

---------------------------------------------------------------------------
(* Python integers of any magnitude: a sign and the base-256 digits of the *)
(* magnitude, least significant first, without high zero digits.           *)

RECURSIVE MagNorm(_)
MagNorm(m) ==
    IF Len(m) > 0 /\ m[Len(m)] = 0 THEN MagNorm(SubSeq(m, 1, Len(m) - 1)) ELSE m

RECURSIVE MagInc(_)
MagInc(m) ==
    IF Len(m) = 0 THEN <<1>>
    ELSE IF m[1] < 255 THEN <<m[1] + 1>> \o Tail(m)
    ELSE <<0>> \o MagInc(Tail(m))

\* m - 1, for m > 0
RECURSIVE MagDecRaw(_)
MagDecRaw(m) ==
    IF m[1] > 0 THEN <<m[1] - 1>> \o Tail(m)
    ELSE <<255>> \o MagDecRaw(Tail(m))

MagDec(m) == MagNorm(MagDecRaw(m))

\* a < b on normalised magnitudes
RECURSIVE MagLtFrom(_, _, _)
MagLtFrom(a, b, i) ==
    IF i = 0 THEN FALSE
    ELSE IF a[i] # b[i] THEN a[i] < b[i]
    ELSE MagLtFrom(a, b, i - 1)

MagLt(a, b) ==
    IF Len(a) # Len(b) THEN Len(a) < Len(b) ELSE MagLtFrom(a, b, Len(a))

PyInt(neg, mag) == [neg |-> neg /\ mag # <<>>, mag |-> mag]

\* x < y
IntLt(x, y) ==
    IF x.neg /\ ~y.neg THEN TRUE
    ELSE IF ~x.neg /\ y.neg THEN FALSE
    ELSE IF x.neg THEN MagLt(y.mag, x.mag)
    ELSE MagLt(x.mag, y.mag)

IntLe(x, y) == x = y \/ IntLt(x, y)

\* a model integer (below 2^31 in magnitude) as a Python integer
IntOf(i) ==
    LET n == IF i < 0 THEN 0 - i ELSE i
    IN  PyInt(i < 0, MagNorm(<<n % 256, (n \div 256) % 256,
                               (n \div 65536) % 256, n \div 16777216>>))

\* 2^e
Pow2(e) == PyInt(FALSE, Rep(0, e \div 8) \o <<2 ^ (e % 8)>>)

IntNeg(x) == PyInt(~x.neg, x.mag)

IntSucc(x) ==
    IF x.neg THEN PyInt(TRUE, MagDec(x.mag)) ELSE PyInt(FALSE, MagInc(x.mag))

IntPred(x) ==
    IF x.neg THEN PyInt(TRUE, MagInc(x.mag))
    ELSE IF x.mag = <<>> THEN PyInt(TRUE, <<1>>)
    ELSE PyInt(FALSE, MagDec(x.mag))

\* x + d for a small model integer d
RECURSIVE IntPlus(_, _)
IntPlus(x, d) ==
    IF d = 0 THEN x
    ELSE IF d > 0 THEN IntPlus(IntSucc(x), d - 1)
    ELSE IntPlus(IntPred(x), d + 1)

\* the value of a Python integer that fits a model integer
ToModelInt(x) ==
    LET m == [i \in 1..4 |-> IF i <= Len(x.mag) THEN x.mag[i] ELSE 0]
        n == m[1] + 256 * m[2] + 65536 * m[3] + 16777216 * m[4]
    IN  IF x.neg THEN 0 - n ELSE n

---------------------------------------------------------------------------
(* Heap nodes *)

Node(k, v) == [k |-> k, v |-> v]

NoneV == Node("none", <<>>)
BoolV(b) == Node("bool", b)
IntV(x) == Node("int", x)
FloatV(bits) == Node("float", bits)
BytesV(s) == Node("bytes", s)
TextV(cps) == Node("text", cps)
DateV(y, m, d) == Node("date", [year |-> y, month |-> m, day |-> d])
TimeV(h, m, s, us, tz) ==
    Node("time", [hour |-> h, minute |-> m, second |-> s, microsecond |-> us,
                  tzinfo |-> tz])
DateTimeV(y, mo, d, h, mi, s, us, tz) ==
    Node("datetime", [year |-> y, month |-> mo, day |-> d, hour |-> h,
                      minute |-> mi, second |-> s, microsecond |-> us,
                      tzinfo |-> tz])
TimeDeltaV(d, s, us) ==
    Node("timedelta", [days |-> d, seconds |-> s, microseconds |-> us])
\* a decimal.Decimal: special is "" for a finite number, else one of
\* "NaN", "sNaN", "Infinity", "-Infinity"
DecimalV(special, sign, digits, expo) ==
    Node("decimal", [special |-> special, sign |-> sign, digits |-> digits,
                     expo |-> expo])
\* an instance of a class the format has no tag for
ObjectV(n) == Node("object", n)
\* containers: v is the sequence of the children's heap indices, in
\* iteration order; a dict's children are <<key, value>> pairs
ListV(kids) == Node("list", kids)
TupleV(kids) == Node("tuple", kids)
SetV(kids) == Node("set", kids)
FrozenSetV(kids) == Node("frozenset", kids)
DictV(pairs) == Node("dict", pairs)

SeqKinds == {"list", "tuple", "set", "frozenset"}

ContainerKinds == SeqKinds \cup {"dict"}

\* the objects a container's dumper iterates over: the items, or the
\* flattened items() of a dict (serialization.py:265)
Children(n) ==
    IF n.k = "dict"
    THEN [i \in 1..(2 * Len(n.v)) |-> n.v[(i + 1) \div 2][2 - (i % 2)]]
    ELSE n.v

---------------------------------------------------------------------------
(* UTF-8 *)

utf8_char(cp) ==
    IF cp < 128 THEN <<cp>>
    ELSE IF cp < 2048 THEN <<192 + (cp \div 64), 128 + (cp % 64)>>
    ELSE IF cp < 65536
    THEN <<224 + (cp \div 4096), 128 + ((cp \div 64) % 64), 128 + (cp % 64)>>
    ELSE <<240 + (cp \div 262144), 128 + ((cp \div 4096) % 64),
           128 + ((cp \div 64) % 64), 128 + (cp % 64)>>

\* x.encode('utf8')
utf8_encode(cps) ==
    Only({JoinAll([i \in 1..Len(c) |-> utf8_char(c[i])]) : c \in {cps}})

IsCont(b) == b >= 128 /\ b < 192

\* str.decode('utf8') from position i (1-based); <<FALSE>> on invalid input
RECURSIVE utf8_decode_from(_, _, _)
utf8_decode_from(s, i, acc) ==
    IF i > Len(s) THEN <<TRUE, acc>>
    ELSE LET b == s[i]
             n == IF b < 128 THEN 1
                  ELSE IF b >= 194 /\ b < 224 THEN 2
                  ELSE IF b >= 224 /\ b < 240 THEN 3
                  ELSE IF b >= 240 /\ b < 245 THEN 4
                  ELSE 0
         IN  IF n = 0 \/ i + n - 1 > Len(s) THEN <<FALSE>>
             ELSE IF \E j \in 1..(n - 1) : ~IsCont(s[i + j]) THEN <<FALSE>>
             ELSE LET cp == IF n = 1 THEN b
                            ELSE IF n = 2 THEN (b - 192) * 64 + (s[i + 1] - 128)
                            ELSE IF n = 3
                            THEN (b - 224) * 4096 + (s[i + 1] - 128) * 64
                                 + (s[i + 2] - 128)
                            ELSE (b - 240) * 262144 + (s[i + 1] - 128) * 4096
                                 + (s[i + 2] - 128) * 64 + (s[i + 3] - 128)
                      bad == \/ (n = 3 /\ cp < 2048)
                             \/ (n = 4 /\ (cp < 65536 \/ cp > 1114111))
                  IN  IF bad THEN <<FALSE>>
                      ELSE utf8_decode_from(s, i + n, Append(acc, cp))

utf8_decode(s) == utf8_decode_from(s, 1, <<>>)

---------------------------------------------------------------------------
(* Results: a returned value or a raised exception *)

Ok(b) == [ok |-> TRUE, b |-> b, err |-> ""]

Err(e) == [ok |-> FALSE, b |-> <<>>, err |-> e]

DepthError == "ValueError: max depth exceeded"

---------------------------------------------------------------------------
(* struct.pack *)

\* n as w big-endian bytes, 0 <= n < 2^31
BE(n, w) == [i \in 1..w |-> (n \div (256 ^ (w - i))) % 256]

\* struct.pack("!b" / "!h" / "!i", n) of a model integer n
pack_signed(n, w) ==
    IF w < 4 /\ (n < 0 - (2 ^ (8 * w - 1)) \/ n >= 2 ^ (8 * w - 1))
    THEN Err("struct.error")
    ELSE IF n >= 0 THEN Ok(BE(n, w))
    ELSE IF w < 4 THEN Ok(BE(n + 2 ^ (8 * w), w))
    ELSE LET u == (n + 2147483647) + 1
         IN  Ok(<<128 + (u \div 16777216)>> \o BE(u % 16777216, 3))

\* struct.pack("!B" / "!H" / "!I", n) of a model integer n >= 0
pack_unsigned(n, w) ==
    IF n < 0 \/ (w < 4 /\ n >= 2 ^ (8 * w)) THEN Err("struct.error")
    ELSE Ok(BE(n, w))

\* struct.pack("!h" / "!i" / "!q", x) of a Python integer x: two's
\* complement, big-endian
pack_int(x, w) ==
    LET m == IF x.neg THEN MagDec(x.mag) ELSE x.mag
    IN  IF Len(m) > w \/ (Len(m) = w /\ m[w] >= 128) THEN Err("struct.error")
        ELSE LET padded == [i \in 1..w |-> IF i <= Len(m) THEN m[i] ELSE 0]
                 le == IF x.neg THEN [i \in 1..w |-> 255 - padded[i]]
                       ELSE padded
             IN  Ok(Reverse(le))

---------------------------------------------------------------------------
(* Type codes, serialization.py:52-92 *)

MAX_DEPTH == 256

MUMMY_TYPE_NULL == 0
MUMMY_TYPE_BOOL == 1
MUMMY_TYPE_CHAR == 2
MUMMY_TYPE_SHORT == 3
MUMMY_TYPE_INT == 4
MUMMY_TYPE_LONG == 5
MUMMY_TYPE_HUGE == 6
MUMMY_TYPE_FLOAT == 7
MUMMY_TYPE_SHORTSTR == 8
MUMMY_TYPE_LONGSTR == 9
MUMMY_TYPE_SHORTUTF8 == 10
MUMMY_TYPE_LONGUTF8 == 11
MUMMY_TYPE_LONGLIST == 12
MUMMY_TYPE_LONGTUPLE == 13
MUMMY_TYPE_LONGSET == 14
MUMMY_TYPE_LONGHASH == 15
MUMMY_TYPE_SHORTLIST == 16
MUMMY_TYPE_SHORTTUPLE == 17
MUMMY_TYPE_SHORTSET == 18
MUMMY_TYPE_SHORTHASH == 19
MUMMY_TYPE_MEDLIST == 20
MUMMY_TYPE_MEDTUPLE == 21
MUMMY_TYPE_MEDSET == 22
MUMMY_TYPE_MEDHASH == 23
MUMMY_TYPE_MEDSTR == 24
MUMMY_TYPE_MEDUTF8 == 25
MUMMY_TYPE_DATE == 26
MUMMY_TYPE_TIME == 27
MUMMY_TYPE_DATETIME == 28
MUMMY_TYPE_TIMEDELTA == 29
MUMMY_TYPE_DECIMAL == 30
MUMMY_TYPE_SPECIALNUM == 31

MUMMY_SPECIAL_INFINITY == 16
MUMMY_SPECIAL_NAN == 32

\* struct.pack("!h", 1) == struct.pack("h", 1): the host's byte order
BIG_ENDIAN == FALSE

\* the value get_type_code stands for "raise ValueError"
Unserializable == 0 - 1

\* the narrowest of three codes for a size
BySize(n, short, med, long) ==
    Only({IF len < 256 THEN short
          ELSE IF len < 65536 THEN med
          ELSE long : len \in {n}})

\* the size of text taken to be its number of characters
text_len_in_characters(x) == Len(x.v)

get_type_code_text_len(x) == Len(utf8_encode(x.v))

get_type_code_int(x) ==
    IF IntLe(IntOf(0 - 128), x) /\ IntLt(x, IntOf(128)) THEN MUMMY_TYPE_CHAR
    ELSE IF IntLe(IntOf(0 - 32768), x) /\ IntLt(x, IntOf(32768))
    THEN MUMMY_TYPE_SHORT
    ELSE IF IntLe(IntNeg(Pow2(31)), x) /\ IntLt(x, Pow2(31))
    THEN MUMMY_TYPE_INT
    ELSE IF IntLe(IntNeg(Pow2(63)), x) /\ IntLt(x, Pow2(63))
    THEN MUMMY_TYPE_LONG
    ELSE MUMMY_TYPE_HUGE

get_type_code(x) ==
    CASE x.k = "none" -> MUMMY_TYPE_NULL
      [] x.k = "bool" -> MUMMY_TYPE_BOOL
      [] x.k = "float" -> MUMMY_TYPE_FLOAT
      [] x.k = "list" ->
            BySize(Len(x.v), MUMMY_TYPE_SHORTLIST, MUMMY_TYPE_MEDLIST,
                   MUMMY_TYPE_LONGLIST)
      [] x.k = "tuple" ->
            BySize(Len(x.v), MUMMY_TYPE_SHORTTUPLE, MUMMY_TYPE_MEDTUPLE,
                   MUMMY_TYPE_LONGTUPLE)
      [] x.k \in {"set", "frozenset"} ->
            BySize(Len(x.v), MUMMY_TYPE_SHORTSET, MUMMY_TYPE_MEDSET,
                   MUMMY_TYPE_LONGSET)
      [] x.k = "dict" ->
            BySize(Len(x.v), MUMMY_TYPE_SHORTHASH, MUMMY_TYPE_MEDHASH,
                   MUMMY_TYPE_LONGHASH)
      [] x.k = "bytes" ->
            BySize(Len(x.v), MUMMY_TYPE_SHORTSTR, MUMMY_TYPE_MEDSTR,
                   MUMMY_TYPE_LONGSTR)
      [] x.k = "text" ->
            BySize(get_type_code_text_len(x), MUMMY_TYPE_SHORTUTF8,
                   MUMMY_TYPE_MEDUTF8, MUMMY_TYPE_LONGUTF8)
      [] x.k = "int" -> get_type_code_int(x.v)
      [] x.k = "date" -> MUMMY_TYPE_DATE
      [] x.k = "time" -> MUMMY_TYPE_TIME
      [] x.k = "datetime" -> MUMMY_TYPE_DATETIME
      [] x.k = "timedelta" -> MUMMY_TYPE_TIMEDELTA
      [] x.k = "decimal" ->
            IF x.v.special # "" THEN MUMMY_TYPE_SPECIALNUM
            ELSE MUMMY_TYPE_DECIMAL
      [] OTHER -> Unserializable

---------------------------------------------------------------------------
(* Dumpers of the values that hold no other value, serialization.py:186-337 *)

\* _dump_char of a model integer (a tag, a month, an hour ...)
dump_char(x) ==
    LET y == IF x < 0 THEN x + 256 ELSE x
    IN  IF y < 0 \/ y > 255 THEN Err("ValueError: chr() arg not in range(256)")
        ELSE Ok(<<y>>)

dump_uchar(x) ==
    IF x < 0 \/ x > 255 THEN Err("ValueError: chr() arg not in range(256)")
    ELSE Ok(<<x>>)

dump_ushort(x) == pack_unsigned(x, 2)

dump_uint(x) == pack_unsigned(x, 4)

\* a.b ++ b.b, or the first exception
Cat(a, b) == IF ~a.ok THEN a ELSE IF ~b.ok THEN b ELSE Ok(a.b \o b.b)

\* a sign byte before every body
dump_huge_padded(x) ==
    LET m == IF x.neg THEN MagDec(x.mag) ELSE x.mag
        body == <<IF x.neg THEN 255 ELSE 0>>
                \o Reverse([i \in 1..Len(m) |->
                               IF x.neg THEN 255 - m[i] ELSE m[i]])
    IN  Cat(dump_uint(Len(body)), Ok(body))

dump_huge(x) ==
    LET neg == x.neg
        \* if neg: x = ~x;  while x: data.append(x & 0xff); x >>= 8
        data0 == IF neg THEN MagDec(x.mag) ELSE x.mag
        data1 == IF neg THEN [i \in 1..Len(data0) |-> 255 - data0[i]] ELSE data0
        data2 == IF ~BIG_ENDIAN THEN Reverse(data1) ELSE data1
    IN  IF data2 = <<>> THEN Err("IndexError")
        ELSE LET data3 == IF neg /\ data2[1] < 128 THEN <<255>> \o data2
                          ELSE IF ~neg /\ data2[1] >= 128 THEN <<0>> \o data2
                          ELSE data2
             IN  Cat(dump_uint(Len(data3)), Ok(data3))

dump_shortstr(x) == Cat(dump_uchar(Len(x)), Ok(x))

dump_medstr(x) == Cat(dump_ushort(Len(x)), Ok(x))

dump_longstr(x) == Cat(dump_uint(Len(x)), Ok(x))

dump_date(x) ==
    Cat(dump_ushort(x.year), Cat(dump_char(x.month), dump_char(x.day)))

dump_time(x) ==
    IF x.tzinfo THEN Err("ValueError: can't serialize data objects with tzinfo")
    ELSE Cat(dump_char(x.hour), Cat(dump_char(x.minute),
         Cat(dump_char(x.second),
             IF pack_unsigned(x.microsecond, 4).ok
             THEN Ok(SubSeq(pack_unsigned(x.microsecond, 4).b, 2, 4))
             ELSE Err("struct.error"))))

dump_datetime(x) == Cat(dump_date(x), dump_time(x))

dump_timedelta(x) ==
    Cat(pack_signed(x.days, 4),
        Cat(pack_signed(x.seconds, 4), pack_signed(x.microseconds, 4)))

dump_decimal(x) ==
    LET digits == x.digits
        n == Len(digits)
        pairs == [j \in 1..((n + 1) \div 2) |->
                    digits[2 * j - 1]
                    + (IF 2 * j <= n THEN 16 * digits[2 * j] ELSE 0)]
    IN  IF \E i \in 1..n : digits[i] < 0 \/ digits[i] > 9
        THEN Err("ValueError: invalid digit")
        ELSE Cat(pack_signed(x.sign, 1),
             Cat(pack_signed(x.expo, 2),
             Cat(pack_unsigned(n, 2), Ok(pairs))))

dump_specialnum(x) ==
    IF x.special = "sNaN" THEN dump_uchar(MUMMY_SPECIAL_NAN + 1)
    ELSE IF x.special = "NaN" THEN dump_uchar(MUMMY_SPECIAL_NAN)
    ELSE dump_uchar(MUMMY_SPECIAL_INFINITY
                    + (IF x.special = "-Infinity" THEN 1 ELSE 0))

\* _dumpers[kind](item) for the kinds that do not recurse
dump_leaf(kind, x) ==
    CASE kind = MUMMY_TYPE_NULL -> Ok(<<>>)
      [] kind = MUMMY_TYPE_BOOL -> Ok(IF x.v THEN <<1>> ELSE <<0>>)
      [] kind = MUMMY_TYPE_CHAR -> dump_char(ToModelInt(x.v))
      [] kind = MUMMY_TYPE_SHORT -> pack_int(x.v, 2)
      [] kind = MUMMY_TYPE_INT -> pack_int(x.v, 4)
      [] kind = MUMMY_TYPE_LONG -> pack_int(x.v, 8)
      [] kind = MUMMY_TYPE_HUGE -> dump_huge(x.v)
      [] kind = MUMMY_TYPE_FLOAT -> Ok(x.v)
      [] kind = MUMMY_TYPE_SHORTSTR -> dump_shortstr(x.v)
      [] kind = MUMMY_TYPE_MEDSTR -> dump_medstr(x.v)
      [] kind = MUMMY_TYPE_LONGSTR -> dump_longstr(x.v)
      [] kind = MUMMY_TYPE_SHORTUTF8 -> dump_shortstr(utf8_encode(x.v))
      [] kind = MUMMY_TYPE_MEDUTF8 -> dump_medstr(utf8_encode(x.v))
      [] kind = MUMMY_TYPE_LONGUTF8 -> dump_longstr(utf8_encode(x.v))
      [] kind = MUMMY_TYPE_DATE -> dump_date(x.v)
      [] kind = MUMMY_TYPE_TIME -> dump_time(x.v)
      [] kind = MUMMY_TYPE_DATETIME -> dump_datetime(x.v)
      [] kind = MUMMY_TYPE_TIMEDELTA -> dump_timedelta(x.v)
      [] kind = MUMMY_TYPE_DECIMAL -> dump_decimal(x.v)
      [] kind = MUMMY_TYPE_SPECIALNUM -> dump_specialnum(x.v)

ShortKinds ==
    {MUMMY_TYPE_SHORTLIST, MUMMY_TYPE_SHORTTUPLE, MUMMY_TYPE_SHORTSET,
     MUMMY_TYPE_SHORTHASH}

MedKinds ==
    {MUMMY_TYPE_MEDLIST, MUMMY_TYPE_MEDTUPLE, MUMMY_TYPE_MEDSET,
     MUMMY_TYPE_MEDHASH}

LongKinds ==
    {MUMMY_TYPE_LONGLIST, MUMMY_TYPE_LONGTUPLE, MUMMY_TYPE_LONGSET,
     MUMMY_TYPE_LONGHASH}

HashKinds == {MUMMY_TYPE_SHORTHASH, MUMMY_TYPE_MEDHASH, MUMMY_TYPE_LONGHASH}

ContainerCodes == ShortKinds \cup MedKinds \cup LongKinds

\* the count prefix a container's dumper writes first: len(x) as one, two
\* or four bytes (serialization.py:256, 263, 268, 275, 280, 287)
dump_count(kind, x) ==
    IF kind \in ShortKinds THEN dump_uchar(Len(x.v))
    ELSE IF kind \in MedKinds THEN dump_ushort(Len(x.v))
    ELSE dump_uint(Len(x.v))

---------------------------------------------------------------------------
(* The lzf module (python-lzf), which serialization.py imports when it is  *)
(* installed.  The byte format is LZF's: a control byte below 32 starts a   *)
(* run of literals, any other a back reference.  compress is a greedy       *)
(* encoder of that format which looks back LzfWindow bytes.                 *)

LzfWindow == 4

LzfMaxMatch == 9 + 255

MinOf(S) == CHOOSE x \in S : \A y \in S : x <= y

\* how many bytes from position i on repeat the bytes o positions earlier
lzf_match_len(d, i, o) ==
    LET lim == Min2(LzfMaxMatch, Len(d) - i + 1)
        diff == {t \in 0..(lim - 1) : d[i + t] # d[i + t - o]}
    IN  IF diff = {} THEN lim ELSE MinOf(diff)

lzf_has_match(d, i, o) ==
    /\ o < i
    /\ i + 2 <= Len(d)
    /\ \A t \in 0..2 : d[i + t] = d[i + t - o]

lzf_offsets(d, i) == {o \in 1..LzfWindow : lzf_has_match(d, i, o)}

\* the back reference of L bytes to o positions earlier
lzf_backref(L, o) ==
    IF L - 2 < 7
    THEN <<(L - 2) * 32 + ((o - 1) \div 256), (o - 1) % 256>>
    ELSE <<7 * 32 + ((o - 1) \div 256), L - 9, (o - 1) % 256>>

\* where the run of literals from i ends: before the next position with a
\* match, after 32 bytes, or with the input
lzf_run_end(d, i, stop) ==
    IF stop = {} THEN Min2(i + 32, Len(d) + 1) ELSE MinOf(stop)

\* the position and the output after the token written at i: a back
\* reference of L bytes, or the literals up to next
lzf_matched(d, i, acc, o, L) == [i |-> i + L, acc |-> acc \o lzf_backref(L, o)]

lzf_literal(d, i, acc, next) ==
    [i |-> next, acc |-> acc \o <<next - i - 1>> \o SubSeq(d, i, next - 1)]

lzf_at(d, i, acc, offs) ==
    IF offs # {}
    THEN lzf_matched(d, i, acc, MinOf(offs), lzf_match_len(d, i, MinOf(offs)))
    ELSE lzf_literal(d, i, acc,
             lzf_run_end(d, i, {j \in (i + 1)..Min2(i + 31, Len(d)) :
                                  lzf_offsets(d, j) # {}}))

\* the next k tokens, or those up to the end of the input
RECURSIVE lzf_tokens(_, _, _)
lzf_tokens(d, s, k) ==
    IF k = 0 \/ s.i > Len(d) THEN s
    ELSE Only({lzf_tokens(d, t, k - 1) :
               t \in {lzf_at(d, s.i, s.acc, lzf_offsets(d, s.i))}})

\* the input from i on, token by token
RECURSIVE lzf_compress_from(_, _, _)
lzf_compress_from(d, i, acc) ==
    IF i > Len(d) THEN acc
    ELSE Only({lzf_compress_from(d, t.i, t.acc) :
               t \in {lzf_tokens(d, [i |-> i, acc |-> acc], 32)}})

lzf_fit(c, maxlen) == IF Len(c) > maxlen THEN <<>> ELSE c

\* lzf.compress(data, max_length): <<>> stands for None
lzf_compress(d, maxlen) == lzf_fit(lzf_compress_from(d, 1, <<>>), maxlen)

RECURSIVE lzf_decompress_from(_, _, _, _)
lzf_decompress_from(c, i, acc, maxlen) ==
    IF Len(acc) > maxlen THEN Err("None")
    ELSE IF i > Len(c) THEN Ok(acc)
    ELSE LET ctrl == c[i]
         IN  IF ctrl < 32
             THEN IF i + ctrl + 1 > Len(c) THEN Err("ValueError: lzf")
                  ELSE lzf_decompress_from(c, i + ctrl + 2,
                           acc \o SubSeq(c, i + 1, i + ctrl + 1), maxlen)
             ELSE LET long == (ctrl \div 32) = 7
                      need == IF long THEN 2 ELSE 1
                  IN  IF i + need > Len(c) THEN Err("ValueError: lzf")
                      ELSE LET L == (IF long THEN 7 + c[i + 1]
                                     ELSE ctrl \div 32) + 2
                               o == (ctrl % 32) * 256 + c[i + need] + 1
                               copy == [t \in 1..L |->
                                          acc[Len(acc) - o + 1 + ((t - 1) % o)]]
                           IN  IF o > Len(acc) THEN Err("ValueError: lzf")
                               ELSE lzf_decompress_from(c, i + need + 1,
                                        acc \o copy, maxlen)

\* lzf.decompress(data, max_length): Err("None") stands for a None result
lzf_decompress(c, maxlen) == lzf_decompress_from(c, 1, <<>>, maxlen)

---------------------------------------------------------------------------
(* The default argument of dumps.  tests.py:231-252 gives two formatters;  *)
(* the others are callers' functions of the shapes the claims speak of.    *)

Defaults == {"none", "fmt", "echo", "nest", "notcallable"}

\* default(item): the heap with the objects the call created, and the
\* index of the object returned
call_default(d, h, id) ==
    LET x == h[id]
        n == Len(h)
    IN  CASE d = "fmt" ->
               \* object_formatter and fraction_formatter
               IF x.k = "object" /\ x.v = 0
               THEN [ok |-> TRUE, err |-> "", res |-> n + 1,
                     heap |-> h \o <<TupleV(<<n + 2, n + 3>>),
                                     BytesV(<<117, 110>>), BytesV(<<111>>)>>]
               ELSE IF x.k = "object" /\ x.v = 1
               THEN [ok |-> TRUE, err |-> "", res |-> n + 1,
                     heap |-> h \o <<TupleV(<<n + 2, n + 3>>),
                                     IntV(IntOf(5)), IntV(IntOf(7))>>]
               ELSE [ok |-> FALSE, err |-> "TypeError: unserializable",
                     res |-> 0, heap |-> h]
          [] d = "echo" ->
               \* lambda o: o
               [ok |-> TRUE, err |-> "", res |-> id, heap |-> h]
          [] d = "nest" ->
               \* lambda o: [Other(o.v + 1)] while o.v < 3, else None
               IF x.k = "object" /\ x.v < 3
               THEN [ok |-> TRUE, err |-> "", res |-> n + 1,
                     heap |-> h \o <<ListV(<<n + 2>>), ObjectV(x.v + 1)>>]
               ELSE [ok |-> TRUE, err |-> "", res |-> n + 1,
                     heap |-> h \o <<NoneV>>]

---------------------------------------------------------------------------
(* pure_python_dumps, serialization.py:375-410 *)

\* the limit tested a level too late
depth_exceeded_late(depth) == depth > MAX_DEPTH

\* line 392
depth_exceeded(depth) == depth >= MAX_DEPTH

\* lines 394-400: the type code of the item, through default when the item
\* has none.  dl is the log of default's calls.
Resolved(ok, err, kind, item, h, dl) ==
    [ok |-> ok, err |-> err, kind |-> kind, item |-> item, heap |-> h,
     dlog |-> dl]

\* line 400, r being what default(item) returned and kind2 its type code
resolve_result(r, dl, kind2) ==
    Resolved(kind2 # Unserializable,
             IF kind2 # Unserializable THEN ""
             ELSE "ValueError: cannot be serialized",
             kind2, r.res, r.heap, dl)

\* line 399, r being the outcome of the call default(item)
resolve_default(id, dl, r) ==
    IF ~r.ok
    THEN Resolved(FALSE, r.err, Unserializable, id, r.heap,
                  Append(dl, [arg |-> id, res |-> 0]))
    ELSE resolve_result(r, Append(dl, [arg |-> id, res |-> r.res]),
                        get_type_code(r.heap[r.res]))

\* default consulted before the type map
resolve_default_first(h, id, d, dl, kind) ==
    IF d = "none"
    THEN Resolved(kind # Unserializable,
                  IF kind # Unserializable THEN ""
                  ELSE "TypeError: unserializable type", kind, id, h, dl)
    ELSE resolve_default(id, dl, call_default(d, h, id))

\* lines 396-398, kind being what _get_type_code(item) gave
resolve_first(h, id, d, dl, kind) ==
    IF kind # Unserializable THEN Resolved(TRUE, "", kind, id, h, dl)
    ELSE IF d = "none"
    THEN Resolved(FALSE, "TypeError: unserializable type", kind, id, h, dl)
    ELSE resolve_default(id, dl, call_default(d, h, id))

resolve_kind(h, id, d, dl) ==
    resolve_first(h, id, d, dl, get_type_code(h[id]))

Entered(st, err, r, body) ==
    [st |-> st, err |-> err, kind |-> r.kind, item |-> r.item, data |-> body,
     heap |-> r.heap, dlog |-> r.dlog]

\* line 401 up to the dumper's first recursive call, body being the count
\* prefix of a container or the whole body of another value
dumps_body(r, body) ==
    IF ~body.ok THEN Entered("raise", body.err, r, <<>>)
    ELSE Entered(IF r.kind \in ContainerCodes THEN "push" ELSE "leaf", "", r,
                 body.b)

dumps_resolved(r) ==
    IF ~r.ok THEN Entered("raise", r.err, r, <<>>)
    ELSE dumps_body(r, IF r.kind \in ContainerCodes
                       THEN dump_count(r.kind, r.heap[r.item])
                       ELSE dump_leaf(r.kind, r.heap[r.item]))

\* lines 390-401, up to the dumper's first recursive call: the call raises,
\* returns the body of a value that holds no other, or starts a container
dumps_enter(h, id, depth, d, dl) ==
    IF d = "notcallable"
    THEN Entered("raise", "TypeError: default must be callable or None",
                 Resolved(FALSE, "", 0, id, h, dl), <<>>)
    ELSE IF depth_exceeded(depth)
    THEN Entered("raise", DepthError, Resolved(FALSE, "", 0, id, h, dl), <<>>)
    ELSE dumps_resolved(resolve_kind(h, id, d, dl))

\* line 403: whether compression is attempted
should_compress(compress, lzfOn, datalen) == compress /\ lzfOn /\ datalen > 5

\* any compressed body no longer than the body accepted
compress_limit_loose(datalen) == datalen

\* line 404: the most bytes the compressed body may take
compress_limit(datalen) == datalen - 5

\* lines 405-410, compressed being what lzf.compress returned, if called
enveloped(kind, body, compressed) ==
    IF compressed # <<>>
    THEN <<kind + 128>> \o pack_signed(Len(body), 4).b \o compressed
    ELSE <<kind>> \o body

\* lines 402-410: the payload of a value whose body is data
finish(kind, body, compress, lzfOn) ==
    enveloped(kind, body,
              IF should_compress(compress, lzfOn, Len(body))
              THEN lzf_compress(body, compress_limit(Len(body)))
              ELSE <<>>)

\* the recursive calls made with the caller's own compress argument
child_compress_inherited(parent) == parent

\* the compress argument of the recursive calls, lines 257-288: compress=0
child_compress(parent) == FALSE

Frame(id, kind, depth, kids, acc, compress) ==
    [id |-> id, kind |-> kind, depth |-> depth, kids |-> kids, i |-> 1,
     acc |-> acc, compress |-> compress, marks |-> <<>>]

\* what dumps has returned: the payload b; tag and body are the kind and
\* data of the outermost call before compression, marks the positions in
\* body of the tags of all nested values
Returned(b, kind, body, marks) ==
    [ok |-> TRUE, b |-> b, err |-> "", tag |-> kind, body |-> body,
     marks |-> marks]

Raised(e) ==
    [ok |-> FALSE, b |-> <<>>, err |-> e, tag |-> 0, body |-> <<>>,
     marks |-> <<>>]

NoResult == Raised("")

\* a frame after the payload p of its next child has been joined; cm are
\* the child's own marks
Joined(f, p, cm) ==
    [f EXCEPT !.i = f.i + 1,
              !.acc = f.acc \o p,
              !.marks = f.marks \o <<Len(f.acc) + 1>>
                        \o [j \in 1..Len(cm) |-> Len(f.acc) + 1 + cm[j]]]

Top(stk) == stk[Len(stk)]

Pop(stk) == SubSeq(stk, 1, Len(stk) - 1)

SetTop(stk, f) == [stk EXCEPT ![Len(stk)] = f]

---------------------------------------------------------------------------
(* Loaders of the values that hold no other value, serialization.py:417-621. *)
(* A loader is given x, the bytes after the tag, and returns the value and   *)
(* the number of bytes it counts as read.  Four-byte counts in the streams   *)
(* of this model stay below 2^31.                                            *)

Loaded(v, w) == [ok |-> TRUE, err |-> "", v |-> v, w |-> w]

LoadErr(e) == [ok |-> FALSE, err |-> e, v |-> NoneV, w |-> 0]

\* big-endian bytes as a model integer
RECURSIVE be_value(_)
be_value(bs) ==
    IF bs = <<>> THEN 0 ELSE 256 * be_value(SubSeq(bs, 1, Len(bs) - 1)) + bs[Len(bs)]

\* struct.unpack of w big-endian bytes, two's complement, as a model integer
be_signed(bs) ==
    IF bs[1] >= 128
    THEN (bs[1] - 256) * (256 ^ (Len(bs) - 1)) + be_value(Tail(bs))
    ELSE be_value(bs)

\* struct.unpack("!h" / "!i" / "!q", bs) as a Python integer
unpack_int(bs) ==
    IF bs[1] >= 128
    THEN PyInt(TRUE, MagInc(MagNorm(Reverse([i \in 1..Len(bs) |-> 255 - bs[i]]))))
    ELSE PyInt(FALSE, MagNorm(Reverse(bs)))

load_bool(x) ==
    IF x = <<>> THEN LoadErr("IndexError") ELSE Loaded(BoolV(x[1] # 0), 1)

load_char(x) ==
    IF x = <<>> THEN LoadErr("IndexError")
    ELSE Loaded(IF x[1] >= 128 THEN x[1] - 256 ELSE x[1], 1)

load_uchar(x) ==
    IF x = <<>> THEN LoadErr("IndexError") ELSE Loaded(x[1], 1)

load_ushort(x) ==
    IF Len(x) < 2 THEN LoadErr("struct.error")
    ELSE Loaded(be_value(Slice(x, 0, 2)), 2)

load_uint(x) ==
    IF Len(x) < 4 THEN LoadErr("struct.error")
    ELSE Loaded(be_value(Slice(x, 0, 4)), 4)

\* _load_short, _load_int, _load_long
load_fixed(x, w) ==
    IF Len(x) < w THEN LoadErr("struct.error")
    ELSE Loaded(IntV(unpack_int(Slice(x, 0, w))), w)

\* _load_int where the caller wants a machine-sized number
load_int_small(x) ==
    IF Len(x) < 4 THEN LoadErr("struct.error")
    ELSE Loaded(be_signed(Slice(x, 0, 4)), 4)

\* the bytes read as a magnitude, whatever the top bit
load_huge_unsigned(x) ==
    LET n == load_uint(x)
    IN  IF ~n.ok THEN LoadErr(n.err)
        ELSE IF SliceFrom(x, 4) = <<>> THEN LoadErr("IndexError")
        ELSE Loaded(IntV(PyInt(FALSE,
                         MagNorm(Reverse(Slice(SliceFrom(x, 4), 0, n.v + 4))))),
                    n.v + 4)

load_huge(x) ==
    LET n == load_uint(x)
    IN  IF ~n.ok THEN LoadErr(n.err)
        ELSE LET width == n.v + 4
                 x2 == SliceFrom(x, 4)
             IN  IF x2 = <<>> THEN LoadErr("IndexError")
                 ELSE LET neg == x2[1] >= 128
                          raw == Slice(x2, 0, width)
                          bits == IF neg THEN [i \in 1..Len(raw) |-> 255 - raw[i]]
                                  ELSE raw
                          num == MagNorm(Reverse(bits))
                      IN  Loaded(IntV(IF neg THEN PyInt(TRUE, MagInc(num))
                                      ELSE PyInt(FALSE, num)), width)

load_double(x) ==
    IF Len(x) < 8 THEN LoadErr("struct.error")
    ELSE Loaded(FloatV(Slice(x, 0, 8)), 8)

load_shortstr(x) ==
    LET n == load_uchar(x)
    IN  IF ~n.ok THEN LoadErr(n.err)
        ELSE Loaded(BytesV(Slice(x, 1, n.v + 1)), n.v + 1)

load_medstr(x) ==
    LET n == load_ushort(x)
    IN  IF ~n.ok THEN LoadErr(n.err)
        ELSE Loaded(BytesV(Slice(x, 2, n.v + 2)), n.v + 2)

load_longstr(x) ==
    LET n == load_uint(x)
    IN  IF ~n.ok THEN LoadErr(n.err)
        ELSE Loaded(BytesV(Slice(x, 4, n.v + 4)), n.v + 4)

\* _load_shortutf8, _load_medutf8, _load_longutf8 on the string loader's result
load_utf8(r) ==
    IF ~r.ok THEN r
    ELSE LET t == utf8_decode(r.v.v)
         IN  IF t[1] THEN Loaded(TextV(t[2]), r.w)
             ELSE LoadErr("UnicodeDecodeError")

IsLeap(y) == (y % 4 = 0) /\ ((y % 100 # 0) \/ (y % 400 = 0))

DaysInMonth(y, m) ==
    IF m = 2 THEN (IF IsLeap(y) THEN 29 ELSE 28)
    ELSE IF m \in {4, 6, 9, 11} THEN 30 ELSE 31

\* datetime.date(year, month, day) accepts the arguments
ValidDate(y, m, d) ==
    /\ y >= 1 /\ y <= 9999
    /\ m >= 1 /\ m <= 12
    /\ d >= 1 /\ d <= DaysInMonth(y, m)

\* datetime.time(hour, minute, second, microsecond) accepts the arguments
ValidTime(h, m, s, us) == h < 24 /\ m < 60 /\ s < 60 /\ us < 1000000

load_date(x) ==
    IF Len(x) < 2 THEN LoadErr("struct.error")
    ELSE IF Len(x) < 4 THEN LoadErr("IndexError")
    ELSE LET y == be_value(Slice(x, 0, 2))
         IN  IF ~ValidDate(y, x[3], x[4]) THEN LoadErr("ValueError: date")
             ELSE Loaded(DateV(y, x[3], x[4]), 4)

load_time(x) ==
    IF Len(x) < 3 THEN LoadErr("IndexError")
    ELSE IF Len(x) < 6 THEN LoadErr("struct.error")
    ELSE LET us == be_value(Slice(x, 3, 6))
         IN  IF ~ValidTime(x[1], x[2], x[3], us) THEN LoadErr("ValueError: time")
             ELSE Loaded(TimeV(x[1], x[2], x[3], us, FALSE), 6)

load_datetime(x) ==
    LET d == load_date(x)
        t == load_time(Slice(x, 4, 10))
    IN  IF ~d.ok THEN d
        ELSE IF ~t.ok THEN t
        ELSE Loaded(DateTimeV(d.v.v.year, d.v.v.month, d.v.v.day, t.v.v.hour,
                              t.v.v.minute, t.v.v.second, t.v.v.microsecond,
                              FALSE), 10)

\* floor division and its remainder, for a positive divisor
FloorDiv(a, b) == IF a >= 0 THEN a \div b ELSE 0 - ((b - 1 - a) \div b)

FloorMod(a, b) == a - b * FloorDiv(a, b)

\* datetime.timedelta(days, seconds, microseconds): the normalised fields
load_timedelta(x) ==
    LET d == load_int_small(x)
        s == load_int_small(Slice(x, 4, 8))
        u == load_int_small(Slice(x, 8, 12))
    IN  IF ~d.ok THEN d
        ELSE IF ~s.ok THEN s
        ELSE IF ~u.ok THEN u
        ELSE LET s2 == s.v + FloorDiv(u.v, 1000000)
                 d2 == d.v + FloorDiv(s2, 86400)
             IN  IF d2 > 999999999 \/ d2 < 0 - 999999999
                 THEN LoadErr("OverflowError")
                 ELSE Loaded(TimeDeltaV(d2, FloorMod(s2, 86400),
                                        FloorMod(u.v, 1000000)), 12)

\* decimal.Decimal((sign, digits, expo)) drops the leading zero digits
RECURSIVE StripZeros(_)
StripZeros(ds) ==
    IF Len(ds) > 1 /\ ds[1] = 0 THEN StripZeros(Tail(ds)) ELSE ds

load_decimal(x) ==
    IF x = <<>> THEN LoadErr("IndexError")
    ELSE IF Len(x) < 3 THEN LoadErr("struct.error")
    ELSE IF Len(x) < 5 THEN LoadErr("struct.error")
    ELSE LET sign == load_char(x).v
             expo == be_signed(Slice(x, 1, 3))
             count == be_value(Slice(x, 3, 5))
             width == 5 + (count \div 2) + (count % 2)
             bytes == Slice(x, 5, width)
             nb == Len(bytes)
             nd == IF count % 2 = 1 THEN 2 * nb - 1 ELSE 2 * nb
             digits == [j \in 1..nd |->
                          IF j % 2 = 1 THEN bytes[(j + 1) \div 2] % 16
                          ELSE bytes[j \div 2] \div 16]
         IN  IF nb = 0 THEN LoadErr("IndexError")
             ELSE IF sign \notin {0, 1} THEN LoadErr("ValueError: decimal sign")
             ELSE IF \E j \in 1..nd : digits[j] > 9
             THEN LoadErr("ValueError: decimal digit")
             ELSE Loaded(DecimalV("", sign, StripZeros(digits), expo), width)

\* falls off its end, returning None, when the byte names neither kind
load_specialnum(x) ==
    IF x = <<>> THEN LoadErr("IndexError")
    ELSE LET b == x[1]
             hi == (b \div 16) * 16
         IN  IF hi = MUMMY_SPECIAL_INFINITY
             THEN Loaded(DecimalV(IF b % 2 = 1 THEN "-Infinity" ELSE "Infinity",
                                  0, <<>>, 0), 1)
             ELSE IF hi = MUMMY_SPECIAL_NAN
             THEN Loaded(DecimalV(IF b % 2 = 1 THEN "sNaN" ELSE "NaN",
                                  0, <<>>, 0), 1)
             ELSE LoadErr("TypeError: NoneType")

\* _loaders[kind](x) for the kinds that do not recurse
load_leaf(kind, x) ==
    CASE kind = MUMMY_TYPE_NULL -> Loaded(NoneV, 0)
      [] kind = MUMMY_TYPE_BOOL -> load_bool(x)
      [] kind = MUMMY_TYPE_CHAR ->
            IF load_char(x).ok
            THEN Loaded(IntV(IntOf(load_char(x).v)), 1) ELSE load_char(x)
      [] kind = MUMMY_TYPE_SHORT -> load_fixed(x, 2)
      [] kind = MUMMY_TYPE_INT -> load_fixed(x, 4)
      [] kind = MUMMY_TYPE_LONG -> load_fixed(x, 8)
      [] kind = MUMMY_TYPE_HUGE -> load_huge(x)
      [] kind = MUMMY_TYPE_FLOAT -> load_double(x)
      [] kind = MUMMY_TYPE_SHORTSTR -> load_shortstr(x)
      [] kind = MUMMY_TYPE_MEDSTR -> load_medstr(x)
      [] kind = MUMMY_TYPE_LONGSTR -> load_longstr(x)
      [] kind = MUMMY_TYPE_SHORTUTF8 -> load_utf8(load_shortstr(x))
      [] kind = MUMMY_TYPE_MEDUTF8 -> load_utf8(load_medstr(x))
      [] kind = MUMMY_TYPE_LONGUTF8 -> load_utf8(load_longstr(x))
      [] kind = MUMMY_TYPE_DATE -> load_date(x)
      [] kind = MUMMY_TYPE_TIME -> load_time(x)
      [] kind = MUMMY_TYPE_DATETIME -> load_datetime(x)
      [] kind = MUMMY_TYPE_TIMEDELTA -> load_timedelta(x)
      [] kind = MUMMY_TYPE_DECIMAL -> load_decimal(x)
      [] kind = MUMMY_TYPE_SPECIALNUM -> load_specialnum(x)

\* the count a container's loader reads first
load_count(kind, x) ==
    IF kind \in ShortKinds THEN load_uchar(x)
    ELSE IF kind \in MedKinds THEN load_ushort(x)
    ELSE load_uint(x)

---------------------------------------------------------------------------
(* pure_python_loads and _loads, serialization.py:488-570 and 659-679 *)

\* the flag left on the tag
envelope_kind_kept(b) == b

\* line 676: the tag with the compression flag cleared
envelope_kind(b) == b % 128

\* line 677, body being what lzf.decompress returned
unwrapped(kind, body) ==
    IF ~body.ok
    THEN Err(IF body.err = "None" THEN "TypeError: NoneType" ELSE body.err)
    ELSE Ok(<<kind>> \o body.b)

\* lines 675-677, size being the outcome of _load_int(data[1:5])
unwrap_sized(w, size) ==
    IF ~size.ok THEN Err(size.err)
    ELSE unwrapped(envelope_kind(w[1]),
                   lzf_decompress(SliceFrom(w, 5), size.v + 1))

\* lines 670-677: the buffer _loads is given
loads_unwrap(w, lzfOn) ==
    IF w = <<>> THEN Err("ValueError: no data from which to load")
    ELSE IF w[1] < 128 THEN Ok(w)
    ELSE IF ~lzfOn THEN Err("RuntimeError: can't decompress without python-lzf")
    ELSE unwrap_sized(w, load_int_small(Slice(w, 1, 5)))

\* the Python type a container tag stands for
KindOfCode(code) ==
    IF code \in {MUMMY_TYPE_LONGLIST, MUMMY_TYPE_SHORTLIST, MUMMY_TYPE_MEDLIST}
    THEN "list"
    ELSE IF code \in {MUMMY_TYPE_LONGTUPLE, MUMMY_TYPE_SHORTTUPLE,
                      MUMMY_TYPE_MEDTUPLE}
    THEN "tuple"
    ELSE IF code \in HashKinds THEN "dict"
    ELSE "set"

\* hash(x) succeeds
RECURSIVE Hashable(_, _)
Hashable(h, id) ==
    IF h[id].k \in {"list", "set", "dict"} THEN FALSE
    ELSE IF h[id].k \in {"tuple", "frozenset"}
    THEN \A j \in 1..Len(h[id].v) : Hashable(h, h[id].v[j])
    ELSE TRUE

\* the value of a hashable object, with True and False as 1 and 0; floats
\* and decimals are told apart from integers of the same value
RECURSIVE KeyValue(_, _)
KeyValue(h, id) ==
    IF h[id].k = "bool" THEN IntV(IntOf(IF h[id].v THEN 1 ELSE 0))
    ELSE IF h[id].k \in {"tuple", "frozenset"}
    THEN Node(h[id].k, [j \in 1..Len(h[id].v) |-> KeyValue(h, h[id].v[j])])
    ELSE h[id]

SameKey(h, a, b) == KeyValue(h, a) = KeyValue(h, b)

\* set(lst): the elements without the later equal ones
RECURSIVE Distinct(_, _, _, _)
Distinct(h, ids, i, acc) ==
    IF i > Len(ids) THEN acc
    ELSE IF \E j \in 1..Len(acc) : SameKey(h, acc[j], ids[i])
    THEN Distinct(h, ids, i + 1, acc)
    ELSE Distinct(h, ids, i + 1, Append(acc, ids[i]))

\* result[key] = value
SetItem(h, pairs, key, value) ==
    IF \E j \in 1..Len(pairs) : SameKey(h, pairs[j][1], key)
    THEN [j \in 1..Len(pairs) |->
            IF SameKey(h, pairs[j][1], key) THEN <<pairs[j][1], value>>
            ELSE pairs[j]]
    ELSE Append(pairs, <<key, value>>)

LoadFrame(code, id, n, width, xoff) ==
    [code |-> code, id |-> id, n |-> n, i |-> 0, width |-> width,
     xoff |-> xoff, kids |-> <<>>, pairs |-> <<>>]

Entering(st, err, code, v, w, n) ==
    [st |-> st, err |-> err, code |-> code, v |-> v, w |-> w, n |-> n]

\* a container's loader has read its count c
loads_counted(kind, c) ==
    IF ~c.ok THEN Entering("raise", c.err, kind, NoneV, 0, 0)
    ELSE Entering("push", "", kind, NoneV, c.w,
                  IF kind \in HashKinds THEN 2 * c.v ELSE c.v)

\* another loader has returned, or raised, r
loads_leaf(kind, r) ==
    IF ~r.ok THEN Entering("raise", r.err, kind, NoneV, 0, 0)
    ELSE Entering("leaf", "", kind, r.v, r.w, 0)

\* line 661: _loaders[kind](data[1:])
loads_dispatch(kind, x) ==
    IF kind < 0 \/ kind > MUMMY_TYPE_SPECIALNUM
    THEN Entering("raise", "KeyError", 0, NoneV, 0, 0)
    ELSE IF kind \in ContainerCodes
    THEN loads_counted(kind, load_count(kind, x))
    ELSE loads_leaf(kind, load_leaf(kind, x))

\* _loads(data), up to the loader's first recursive call: the call raises,
\* returns a value that holds no other, or starts a container
loads_data(dat) ==
    IF dat = <<>> THEN Entering("raise", "IndexError", 0, NoneV, 0, 0)
    ELSE loads_dispatch(load_char(dat).v, Tail(dat))

\* _loads(d[pos:])
loads_enter(d, pos) == loads_data(SliceFrom(d, pos))

\* a loader's frame after _loads returned the object id, which took w bytes
\* after its tag; err is set when the assignment result[key] = value raises
LoadJoined(h, f, id, w) ==
    LET isvalue == f.code \in HashKinds /\ f.i % 2 = 1
        key == f.kids[Len(f.kids)]
        bad == isvalue /\ ~Hashable(h, key)
    IN  [err |-> IF bad THEN "TypeError: unhashable type" ELSE "",
         f |-> [f EXCEPT !.i = f.i + 1,
                         !.width = f.width + w + 1,
                         !.kids = Append(f.kids, id),
                         !.pairs = IF isvalue /\ ~bad
                                   THEN SetItem(h, f.pairs, key, id)
                                   ELSE f.pairs]]

\* the object a container's loader returns once its loop has ended
LoadBuilt(h, f) ==
    LET kind == KindOfCode(f.code)
    IN  IF kind = "dict" THEN [err |-> "", v |-> DictV(f.pairs)]
        ELSE IF kind = "set"
        THEN IF \E j \in 1..Len(f.kids) : ~Hashable(h, f.kids[j])
             THEN [err |-> "TypeError: unhashable type", v |-> NoneV]
             ELSE [err |-> "", v |-> SetV(Distinct(h, f.kids, 1, <<>>))]
        ELSE [err |-> "", v |-> Node(kind, f.kids)]

LoadsReturned(id) == [ok |-> TRUE, err |-> "", v |-> id]

LoadsRaised(e) == [ok |-> FALSE, err |-> e, v |-> 0]

NotLoaded == LoadsRaised("")

\* Message.__init__, schemas.py:604-607; nothing cached is None
Message(m) ==
    [message |-> m,
     validation |-> [ok |-> FALSE, info |-> <<>>, err |-> "None"],
     transformation |-> NoneV]

NoMessage == Message(NoneV)

\* a call op(arg) that returned v, or raised err
Call(op, arg, v, err) == [op |-> op, arg |-> arg, v |-> v, err |-> err]

NoCall == Call("", NoneV, NoneV, "")

---------------------------------------------------------------------------
(* The values handed to dumps *)

\* a value written as a tree: a container's v holds the subtrees themselves
RECURSIVE TreeHeap(_, _), TreeKids(_, _, _, _, _)
\* the objects of the subtrees ts[i..], the first of them placed at base + 1
TreeKids(ts, i, base, ids, seg) ==
    IF i > Len(ts) THEN [ids |-> ids, seg |-> seg]
    ELSE LET sub == TreeHeap(ts[i], base)
         IN  TreeKids(ts, i + 1, base + Len(sub), Append(ids, base + 1),
                      seg \o sub)

\* the objects of the tree t, parents before children, t itself at base + 1
TreeHeap(t, base) ==
    IF t.k \in SeqKinds
    THEN LET r == TreeKids(t.v, 1, base + 1, <<>>, <<>>)
         IN  <<Node(t.k, r.ids)>> \o r.seg
    ELSE IF t.k = "dict"
    THEN LET flat == [i \in 1..(2 * Len(t.v)) |-> t.v[(i + 1) \div 2][2 - (i % 2)]]
             r == TreeKids(flat, 1, base + 1, <<>>, <<>>)
         IN  <<DictV([j \in 1..Len(t.v) |-> <<r.ids[2 * j - 1], r.ids[2 * j]>>])>>
             \o r.seg
    ELSE <<t>>

\* how far the pools reach to either side of a boundary
Wiggle == 1

Around(x) == {IntPlus(x, d) : d \in (0 - Wiggle)..(Wiggle - 1)}

\* tests.py:129-150: the integers next to each width's limits
IntPool ==
    {IntOf(0), IntOf(17)}
    \cup Around(Pow2(7)) \cup Around(IntNeg(Pow2(7)))
    \cup Around(Pow2(15)) \cup Around(IntNeg(Pow2(15)))
    \cup Around(Pow2(31)) \cup Around(IntNeg(Pow2(31)))
    \cup Around(Pow2(63)) \cup Around(IntNeg(Pow2(63)))
    \cup {PyInt(FALSE, <<55, 99, 30, 222, 64, 67, 24, 184, 58, 178, 222, 16>>),
          PyInt(TRUE, <<55, 99, 30, 222, 64, 67, 24, 184, 58, 178, 222, 16>>),
          PyInt(FALSE, Rep(255, 9)), PyInt(TRUE, Rep(0, 9) \o <<1>>)}

Hi == <<104, 105>>

LeafPool ==
    {NoneV, BoolV(TRUE), BoolV(FALSE),
     FloatV(<<64, 131, 194, 194, 143, 92, 40, 246>>),
     FloatV(<<127, 248, 0, 0, 0, 0, 0, 0>>),
     BytesV(<<>>), BytesV(Hi), BytesV(Rep(97, 8)), BytesV(Rep(97, 16)),
     BytesV(<<1, 2, 3, 4, 5, 6, 7, 8>>),
     TextV(<<>>), TextV(<<104, 233>>), TextV(<<8364, 128512>>),
     TextV(Rep(111, 12)),
     DateV(2012, 2, 29), TimeV(23, 59, 59, 999999, FALSE),
     TimeV(1, 2, 3, 4, TRUE),
     DateTimeV(1999, 12, 31, 0, 0, 0, 70000, FALSE),
     DateTimeV(1999, 12, 31, 0, 0, 0, 0, TRUE),
     TimeDeltaV(3, 11, 12345), TimeDeltaV(0 - 1, 86399, 999999),
     DecimalV("", 0, <<1, 0, 6, 1, 9, 8, 4>>, 0 - 4),
     DecimalV("", 1, <<1, 1, 0, 6, 1, 9, 8, 4>>, 0 - 4),
     DecimalV("", 0, <<0>>, 0),
     DecimalV("NaN", 0, <<>>, 0), DecimalV("sNaN", 0, <<>>, 0),
     DecimalV("Infinity", 0, <<>>, 0), DecimalV("-Infinity", 0, <<>>, 0),
     ObjectV(0), ObjectV(1), ObjectV(2)}
    \cup {IntV(x) : x \in IntPool}

One == IntV(IntOf(1))

Two == IntV(IntOf(2))

Huge == IntV(Pow2(63))

ContainerPool ==
    {ListV(<<>>), TupleV(<<>>), SetV(<<>>), FrozenSetV(<<>>), DictV(<<>>),
     ListV(<<One, BytesV(Hi)>>),
     ListV(<<Huge, IntV(IntOf(0))>>),
     ListV(<<IntV(IntOf(0)), Huge>>),
     TupleV(<<Huge, Huge>>),
     ListV(<<DateTimeV(1999, 12, 31, 0, 0, 0, 70000, FALSE), IntV(IntOf(17))>>),
     TupleV(<<One, TupleV(<<Two, NoneV>>)>>),
     SetV(<<One, Two>>), FrozenSetV(<<BytesV(Hi), Two>>),
     SetV(<<FrozenSetV(<<One>>), TupleV(<<Two>>)>>),
     DictV(<<<<BytesV(Hi), One>>, <<Two, ListV(<<NoneV>>)>>>>),
     DictV(<<<<FrozenSetV(<<One>>), Two>>>>),
     ListV(<<BytesV(Rep(97, 16))>>),
     ListV(<<ListV(<<TextV(Rep(111, 12))>>), BytesV(Rep(97, 16))>>),
     ListV(Rep(NoneV, 9)),
     ListV(<<One, ObjectV(0)>>),
     ListV(<<ObjectV(1), ObjectV(2)>>),
     DictV(<<<<One, ObjectV(0)>>>>),
     ListV(<<TimeV(1, 2, 3, 4, TRUE)>>)}

\* n lists, each the only item of the one before, the last holding None:
\* None is nested inside n containers (tests.py:204-225 nests without bound)
Chain(n) == [i \in 1..(n + 1) |-> IF i <= n THEN ListV(<<i + 1>>) ELSE NoneV]

HeapPool ==
    {TreeHeap(t, 0) : t \in LeafPool \cup ContainerPool}
    \cup {Chain(n) : n \in (MAX_DEPTH - Wiggle)..(MAX_DEPTH + Wiggle)}
    \cup {<<ListV(<<1>>)>>,                       \* l = []; l.append(l)
          <<ListV(<<2, 2>>), ObjectV(0)>>}         \* o = object(); [o, o]

\* the objects that cannot reach dumps without a default: those in which an
\* object of an unmapped class occurs
HasUnmapped(h) == \E i \in 1..Len(h) : get_type_code(h[i]) = Unserializable

---------------------------------------------------------------------------
(* The byte strings handed to loads *)

\* the most bytes dropped from the end of a payload
MaxCut == 2

Via(how, cut) == [how |-> how, cut |-> cut]

Vias ==
    {Via("asis", 0), Via("plain", 0), Via("envelope", 0)}
    \cup {Via("cut", k) : k \in 1..MaxCut}

\* tag ++ body, the payload before compression
PlainOf(o) == <<o.tag>> \o o.body

\* (tag | 0x80) ++ length ++ compressed body, whatever the saving
EnvelopeOf(o) ==
    <<o.tag + 128>> \o pack_signed(Len(o.body), 4).b
    \o lzf_compress_from(o.body, 1, <<>>)

WireOf(o, v) ==
    CASE v.how = "asis" -> o.b
      [] v.how = "plain" -> PlainOf(o)
      [] v.how = "envelope" -> EnvelopeOf(o)
      [] v.how = "cut" -> Slice(PlainOf(o), 0, Len(PlainOf(o)) - v.cut)

\* n times the header of a one-item list, then None
NestStream(n) ==
    [i \in 1..(2 * n + 1) |->
        IF i = 2 * n + 1 THEN MUMMY_TYPE_NULL
        ELSE IF i % 2 = 1 THEN MUMMY_TYPE_SHORTLIST ELSE 1]

CraftPool ==
    {NestStream(n) : n \in (MAX_DEPTH - Wiggle)..(MAX_DEPTH + Wiggle)}
    \cup {<<>>, <<32>>, <<127>>, <<200>>, <<136, 0, 0, 0, 9, 1, 8, 97, 224>>,
          <<8, 5, 104, 105>>, <<24, 0, 5, 104, 105>>, <<9, 0, 0, 0, 5, 104, 105>>,
          <<10, 3, 104>>, <<10, 2, 255, 255>>,
          <<6, 0, 0, 0, 9, 1, 2>>, <<6, 0, 0, 0, 9>>,
          <<16, 3, 0>>, <<16, 2, 8, 5, 104, 105>>, <<12, 0, 0, 0, 1>>,
          <<19, 1, 2, 1>>, <<0, 1, 2>>, <<31, 0>>, <<31, 33>>,
          <<18, 2, 2, 1, 2, 1>>, <<18, 2, 1, 1, 2, 1>>, <<18, 1, 16, 0>>,
          <<19, 2, 2, 1, 0, 2, 1, 1, 1>>, <<19, 1, 16, 0, 0>>,
          <<26, 0, 0, 1, 1>>, <<26, 7, 220, 2, 30>>, <<27, 24, 0, 0, 0, 0, 0>>,
          <<29, 0, 0, 0, 0, 0, 1, 81, 128, 255, 255, 255, 255>>,
          <<30, 0, 0, 0, 0, 3, 33>>, <<30, 2, 0, 0, 0, 1, 5>>,
          <<30, 0, 0, 0, 0, 2, 10>>, <<30, 0, 0, 0, 0, 0>>,
          <<7, 0, 0, 0>>, <<3, 1>>, <<5, 255, 255, 255, 255, 255, 255, 255, 255>>}

---------------------------------------------------------------------------
(* Runs: dumps(heap[root], dflt), then loads of what it returned or of a   *)
(* byte string derived from it; or loads of a byte string from elsewhere.  *)

NoPrior == [ok |-> FALSE, err |-> "", v |-> 0, heap |-> <<>>]

NoVia == Via("", 0)

InitCodec ==
    /\ scen \in {"codec", "craft"}
    /\ lzf \in BOOLEAN
    /\ IF scen = "codec"
       THEN /\ heap \in HeapPool
            /\ dflt \in IF HasUnmapped(heap) \/ Len(heap) = 1 THEN Defaults
                        ELSE {"none", "fmt"}
            /\ wire = <<>>
            /\ via = NoVia
            /\ pc = "start"
       ELSE /\ heap = <<>>
            /\ dflt = "none"
            /\ wire \in CraftPool
            /\ via = Via("craft", 0)
            /\ pc = "wired"
    /\ root = 1
    /\ estk = <<>>
    /\ out = NoResult
    /\ dlog = <<>>
    /\ tcode = Unserializable
    /\ dstk = <<>>
    /\ data = <<>>
    /\ oheap = <<>>
    /\ dec = NotLoaded
    /\ dec0 = NoPrior
    /\ SCHEMA = NoneV
    /\ cls = ""
    /\ msg = NoMessage
    /\ ret = NoCall

\* dumps(heap[root], dflt): the outermost call of pure_python_dumps
DumpsCall ==
    /\ pc = "start"
    /\ \E r \in {dumps_enter(heap, root, 0, dflt, dlog)} :
           /\ heap' = r.heap
           /\ dlog' = r.dlog
           /\ estk' = IF r.st = "push"
                      THEN <<Frame(r.item, r.kind, 0, Children(r.heap[r.item]),
                                   r.data, TRUE)>>
                      ELSE <<>>
           /\ pc' = IF r.st = "push" THEN "dumping" ELSE "dumped"
           /\ out' = IF r.st = "push" THEN out
                     ELSE IF r.st = "raise" THEN Raised(r.err)
                     ELSE Returned(finish(r.kind, r.data, TRUE, lzf), r.kind,
                                   r.data, <<>>)
    /\ UNCHANGED schema_vars
    /\ UNCHANGED <<scen, root, dflt, lzf, tcode, wire, via, dstk, data, oheap,
                   dec, dec0>>

\* a container's dumper calls pure_python_dumps for its next item
DumpsChild ==
    /\ pc = "dumping"
    /\ Top(estk).i <= Len(Top(estk).kids)
    /\ \E top \in {Top(estk)} :
       \E r \in {dumps_enter(heap, top.kids[top.i], top.depth + 1, dflt, dlog)} :
       \E c \in {child_compress(top.compress)} :
           /\ heap' = r.heap
           /\ dlog' = r.dlog
           /\ estk' = IF r.st = "raise" THEN <<>>
                      ELSE IF r.st = "leaf"
                      THEN SetTop(estk, Joined(top, finish(r.kind, r.data, c, lzf),
                                               <<>>))
                      ELSE Append(estk, Frame(r.item, r.kind, top.depth + 1,
                                              Children(r.heap[r.item]), r.data, c))
           /\ pc' = IF r.st = "raise" THEN "dumped" ELSE "dumping"
           /\ out' = IF r.st = "raise" THEN Raised(r.err) ELSE out
    /\ UNCHANGED schema_vars
    /\ UNCHANGED <<scen, root, dflt, lzf, tcode, wire, via, dstk, data, oheap,
                   dec, dec0>>

\* a container's dumper has joined its items: pure_python_dumps returns
DumpsReturn ==
    /\ pc = "dumping"
    /\ Top(estk).i > Len(Top(estk).kids)
    /\ \E top \in {Top(estk)} :
       \E p \in {finish(top.kind, top.acc, top.compress, lzf)} :
           IF Len(estk) = 1
           THEN /\ estk' = <<>>
                /\ pc' = "dumped"
                /\ out' = Returned(p, top.kind, top.acc, top.marks)
           ELSE /\ estk' = SetTop(Pop(estk),
                                  Joined(estk[Len(estk) - 1], p, top.marks))
                /\ pc' = "dumping"
                /\ out' = out
    /\ UNCHANGED schema_vars
    /\ UNCHANGED <<scen, heap, root, dflt, lzf, dlog, tcode, wire, via, dstk,
                   data, oheap, dec, dec0>>

\* the payload, or a byte string derived from it, is handed to loads
Transmit ==
    /\ pc = "dumped"
    /\ out.ok
    /\ \E v \in Vias :
         /\ v.how = "envelope" => out.body # <<>>
         /\ via' = v
         /\ wire' = WireOf(out, v)
    /\ pc' = "wired"
    /\ UNCHANGED schema_vars
    /\ UNCHANGED <<scen, heap, root, dflt, lzf, estk, out, dlog, tcode, dstk,
                   data, oheap, dec, dec0>>

\* loads(wire): pure_python_loads up to the first recursive call of _loads
LoadsCall ==
    /\ pc = "wired"
    /\ \E u \in {loads_unwrap(wire, lzf)} :
       \E r \in {loads_enter(u.b, 0)} :
           IF ~u.ok \/ r.st = "raise"
           THEN /\ dec' = LoadsRaised(IF ~u.ok THEN u.err ELSE r.err)
                /\ pc' = "loaded"
                /\ UNCHANGED <<dstk, data, oheap>>
           ELSE IF r.st = "leaf"
           THEN /\ dec' = LoadsReturned(1)
                /\ pc' = "loaded"
                /\ oheap' = <<r.v>>
                /\ UNCHANGED <<dstk, data>>
           ELSE /\ dstk' = <<LoadFrame(r.code, 1, r.n, r.w, 1)>>
                /\ data' = u.b
                /\ oheap' = <<Node(KindOfCode(r.code), <<>>)>>
                /\ pc' = "loading"
                /\ dec' = dec
    /\ UNCHANGED schema_vars
    /\ UNCHANGED <<scen, heap, root, dflt, lzf, estk, out, dlog, tcode, wire,
                   via, dec0>>

\* a container's loader calls _loads for its next item
LoadsChild ==
    /\ pc = "loading"
    /\ Top(dstk).i < Top(dstk).n
    /\ \E top \in {Top(dstk)} :
       \E r \in {loads_enter(data, top.xoff + top.width)} :
       \E id \in {Len(oheap) + 1} :
       \E grown \in {Append(oheap, IF r.st = "leaf" THEN r.v
                                   ELSE Node(KindOfCode(r.code), <<>>))} :
       \E j \in {LoadJoined(grown, top, id, r.w)} :
           IF r.st = "raise" \/ (r.st = "leaf" /\ j.err # "")
           THEN /\ dec' = LoadsRaised(IF r.st = "raise" THEN r.err ELSE j.err)
                /\ pc' = "loaded"
                /\ dstk' = <<>>
                /\ oheap' = <<>>
           ELSE /\ oheap' = grown
                /\ dstk' = IF r.st = "leaf" THEN SetTop(dstk, j.f)
                           ELSE Append(dstk, LoadFrame(r.code, id, r.n, r.w,
                                           top.xoff + top.width + 1))
                /\ pc' = "loading"
                /\ dec' = dec
    /\ UNCHANGED schema_vars
    /\ UNCHANGED <<scen, heap, root, dflt, lzf, estk, out, dlog, tcode, wire,
                   via, data, dec0>>

\* a container's loader has read its items and returns
LoadsReturn ==
    /\ pc = "loading"
    /\ Top(dstk).i >= Top(dstk).n
    /\ \E top \in {Top(dstk)} :
       \E b \in {LoadBuilt(oheap, top)} :
       \E built \in {[oheap EXCEPT ![top.id] = b.v]} :
       \E j \in {IF Len(dstk) = 1 THEN [err |-> "", f |-> top]
                 ELSE LoadJoined(built, dstk[Len(dstk) - 1], top.id,
                                 top.width)} :
           IF b.err # "" \/ j.err # ""
           THEN /\ dec' = LoadsRaised(IF b.err # "" THEN b.err ELSE j.err)
                /\ pc' = "loaded"
                /\ dstk' = <<>>
                /\ oheap' = <<>>
           ELSE /\ oheap' = built
                /\ dstk' = IF Len(dstk) = 1 THEN <<>> ELSE SetTop(Pop(dstk), j.f)
                /\ pc' = IF Len(dstk) = 1 THEN "loaded" ELSE "loading"
                /\ dec' = IF Len(dstk) = 1 THEN LoadsReturned(top.id) ELSE dec
    /\ UNCHANGED schema_vars
    /\ UNCHANGED <<scen, heap, root, dflt, lzf, estk, out, dlog, tcode, wire,
                   via, data, dec0>>

\* after loads of an enveloped payload, loads of the same payload in its
\* plain form
Again ==
    /\ pc = "loaded"
    /\ via.how \in {"asis", "envelope"}
    /\ wire[1] >= 128
    /\ dec0' = [ok |-> dec.ok, err |-> dec.err, v |-> dec.v, heap |-> oheap]
    /\ via' = Via("replain", 0)
    /\ wire' = PlainOf(out)
    /\ pc' = "wired"
    /\ dec' = NotLoaded
    /\ oheap' = <<>>
    /\ data' = <<>>
    /\ UNCHANGED schema_vars
    /\ UNCHANGED <<scen, heap, root, dflt, lzf, estk, out, dlog, tcode, dstk>>

NextCodec ==
    \/ DumpsCall
    \/ DumpsChild
    \/ DumpsReturn
    \/ Transmit
    \/ LoadsCall
    \/ LoadsChild
    \/ LoadsReturn
    \/ Again

SpecCodec == InitCodec /\ [][NextCodec]_vars

---------------------------------------------------------------------------
(* Runs of _get_type_code alone, on values of every size class *)

\* the sizes next to the limits of the short and the medium class
SizePool ==
    {0, 1} \cup {256 + d : d \in (0 - Wiggle)..(Wiggle - 1)}
    \cup {65536 + d : d \in (0 - Wiggle)..(Wiggle - 1)}

\* range(1, n + 1) as objects
Numbers(n) == [i \in 1..n |-> IntV(IntOf(i))]

\* values of n bytes, characters, items or pairs
SizedHeaps(n) ==
    {<<BytesV(Rep(97, n))>>,
     <<TextV(Rep(111, n))>>,
     \* n bytes of UTF-8 in about n / 2 characters
     <<TextV(Rep(233, n \div 2) \o Rep(111, n % 2))>>,
     \* n characters in 3 n bytes of UTF-8
     <<TextV(Rep(8364, n))>>,
     <<ListV(Rep(2, n)), NoneV>>,                                \* [None] * n
     <<TupleV(Rep(2, n)), NoneV>>,
     <<SetV([i \in 1..n |-> i + 1])>> \o Numbers(n),             \* set(range)
     <<FrozenSetV([i \in 1..n |-> i + 1])>> \o Numbers(n),
     <<DictV([i \in 1..n |-> <<i + 1, n + 2>>])>> \o Numbers(n) \o <<NoneV>>}

TagPool ==
    {<<x>> : x \in LeafPool} \cup UNION {SizedHeaps(n) : n \in SizePool}

InitTags ==
    /\ scen = "tags"
    /\ heap \in TagPool
    /\ root = 1
    /\ dflt = "none"
    /\ lzf = FALSE
    /\ pc = "start"
    /\ estk = <<>>
    /\ out = NoResult
    /\ dlog = <<>>
    /\ tcode = Unserializable
    /\ wire = <<>>
    /\ via = NoVia
    /\ dstk = <<>>
    /\ data = <<>>
    /\ oheap = <<>>
    /\ dec = NotLoaded
    /\ dec0 = NoPrior
    /\ SCHEMA = NoneV
    /\ cls = ""
    /\ msg = NoMessage
    /\ ret = NoCall

\* _get_type_code(heap[root])
TypeCode ==
    /\ pc = "start"
    /\ scen = "tags"
    /\ tcode' = get_type_code(heap[root])
    /\ pc' = "coded"
    /\ UNCHANGED schema_vars
    /\ UNCHANGED <<scen, heap, root, dflt, lzf, estk, out, dlog, wire, via,
                   dstk, data, oheap, dec, dec0>>

NextTags == TypeCode

SpecTags == InitTags /\ [][NextTags]_vars

---------------------------------------------------------------------------
(* The schema layer, src/mummy/schemas.py (Python 2).  Schemas and messages *)
(* are trees.  Beside the kinds of values a schema has the kinds "type" (a  *)
(* type object, v its name), "OPTIONAL" (v the wrapped schema), "UNION" (v  *)
(* the options), "ANY" and "RULE" (v the name of the predicate).            *)

TypeV(name) == Node("type", name)
OPTIONAL(schema) == Node("OPTIONAL", schema)
UNIONV(options) == Node("UNION", options)
ANY == Node("ANY", <<>>)
RULE(pred) == Node("RULE", pred)
StrV(s) == BytesV(s)

\* lines 192-195
primitives ==
    {"bool", "int", "float", "str", "date", "time", "datetime", "timedelta",
     "Decimal"}

\* the keys of _type_validations, lines 196-206
type_validations == primitives

\* a plain int, as against a long, on a 64-bit build
FitsInt(x) == ~IntLt(x, IntNeg(Pow2(63))) /\ IntLt(x, Pow2(63))

\* type(x).__name__
TypeOf(x) ==
    CASE x.k = "none" -> "NoneType"
      [] x.k = "int" -> IF FitsInt(x.v) THEN "int" ELSE "long"
      [] x.k = "bytes" -> "str"
      [] x.k = "text" -> "unicode"
      [] x.k = "decimal" -> "Decimal"
      [] OTHER -> x.k

\* isinstance(x, _type_validations[t]), lines 196-206: a bool is an int and
\* a datetime is a date
IsInstance(x, t) ==
    CASE t = "int" -> x.k \in {"bool", "int"}
      [] t = "date" -> x.k \in {"date", "datetime"}
      [] OTHER -> TypeOf(x) = t

NumKinds == {"bool", "int", "float"}

NotWhole == [neg |-> FALSE, mag |-> <<0>>]

\* the integer a float equals, for floats below 2^21 in magnitude; NotWhole
\* for the other floats
FloatWhole(bits) ==
    LET e == (bits[1] % 128) * 16 + bits[2] \div 16 - 1023
        m == (bits[2] % 16) * 65536 + bits[3] * 256 + bits[4]
    IN  IF SubSeq(bits, 5, 8) # <<0, 0, 0, 0>> THEN NotWhole
        ELSE IF e = 0 - 1023 /\ m = 0 THEN IntOf(0)
        ELSE IF e < 0 \/ e > 20 \/ m % (2 ^ (20 - e)) # 0 THEN NotWhole
        ELSE IntOf((IF bits[1] >= 128 THEN 0 - 1 ELSE 1)
                   * ((1048576 + m) \div (2 ^ (20 - e))))

\* the integer a number equals
NumVal(x) ==
    CASE x.k = "bool" -> IntOf(IF x.v THEN 1 ELSE 0)
      [] x.k = "int" -> x.v
      [] x.k = "float" -> FloatWhole(x.v)

\* a == b
RECURSIVE PyEq(_, _)
PyEq(a, b) ==
    IF a.k \in NumKinds /\ b.k \in NumKinds
    THEN IF NumVal(a) = NotWhole \/ NumVal(b) = NotWhole THEN a = b
         ELSE NumVal(a) = NumVal(b)
    ELSE IF a.k # b.k THEN FALSE
    ELSE IF a.k \in {"list", "tuple"}
    THEN /\ Len(a.v) = Len(b.v)
         /\ \A i \in 1..Len(a.v) : PyEq(a.v[i], b.v[i])
    ELSE IF a.k = "dict"
    THEN /\ Len(a.v) = Len(b.v)
         /\ \A i \in 1..Len(a.v) : \E j \in 1..Len(b.v) :
                PyEq(a.v[i][1], b.v[j][1]) /\ PyEq(a.v[i][2], b.v[j][2])
    ELSE a = b

\* the place of key in the pairs of a dict, 0 when it is not a key
KeyAt(pairs, key) ==
    IF \E i \in 1..Len(pairs) : PyEq(pairs[i][1], key)
    THEN CHOOSE i \in 1..Len(pairs) : PyEq(pairs[i][1], key)
    ELSE 0

\* key in d
HasKey(pairs, key) == KeyAt(pairs, key) # 0

\* d[key], for a key of d
Lookup(pairs, key) == pairs[KeyAt(pairs, key)][2]

\* d[key] = value
Store(pairs, key, value) ==
    IF HasKey(pairs, key)
    THEN [pairs EXCEPT ![KeyAt(pairs, key)] = <<pairs[KeyAt(pairs, key)][1], value>>]
    ELSE Append(pairs, <<key, value>>)

\* bytes in lexicographic order
RECURSIVE BytesLess(_, _, _)
BytesLess(a, b, i) ==
    IF i > Len(a) THEN i <= Len(b)
    ELSE IF i > Len(b) THEN FALSE
    ELSE IF a[i] # b[i] THEN a[i] < b[i]
    ELSE BytesLess(a, b, i + 1)

\* a < b as Python 2 orders objects of unlike types: None, then the
\* numbers by value, then the rest by the name of their type; strings
\* among themselves byte by byte
TypeRank(x) ==
    CASE x.k = "none" -> 0
      [] x.k \in NumKinds -> 1
      [] x.k = "dict" -> 2
      [] x.k = "list" -> 3
      [] x.k = "bytes" -> 4
      [] x.k = "tuple" -> 5
      [] x.k = "text" -> 6
      [] OTHER -> 7

PyLess(a, b) ==
    IF TypeRank(a) # TypeRank(b) THEN TypeRank(a) < TypeRank(b)
    ELSE IF TypeRank(a) = 1 THEN IntLt(NumVal(a), NumVal(b))
    ELSE IF a.k = "bytes" THEN BytesLess(a.v, b.v, 1)
    ELSE FALSE

\* list.sort(), by insertion
RECURSIVE Sorted(_)
Inserted(s, x) ==
    LET before == {i \in 1..Len(s) : ~PyLess(x, s[i])}
        n == Cardinality(before)
    IN  SubSeq(s, 1, n) \o <<x>> \o SubSeq(s, n + 1, Len(s))

Sorted(s) ==
    IF s = <<>> THEN <<>>
    ELSE Inserted(Sorted(SubSeq(s, 1, Len(s) - 1)), s[Len(s)])

---------------------------------------------------------------------------
(* Validation of a message, schemas.py:257-393.  A validator returns        *)
(* (True, None) or (False, info), or raises.                                *)

Valid == [ok |-> TRUE, info |-> <<>>, err |-> ""]

Invalid(message, schema) == [ok |-> FALSE, info |-> <<message, schema>>, err |-> ""]

Crash(e) == [ok |-> FALSE, info |-> <<>>, err |-> e]

\* the predicates RULE schemas are built on
Preds == {"always", "never", "notnone"}

pred(name, x) ==
    CASE name = "always" -> TRUE
      [] name = "never" -> FALSE
      [] name = "notnone" -> x.k # "none"

\* lines 257-260
validate_simple(schema, message) ==
    IF schema.v \notin type_validations THEN Crash("KeyError")
    ELSE IF IsInstance(message, schema.v) THEN Valid
    ELSE Invalid(message, schema)

\* lines 262-265
validate_simple_instance(schema, message) ==
    IF PyEq(schema, message) THEN Valid ELSE Invalid(message, schema)

\* lines 221-225
optional(x) == x.k = "OPTIONAL"

required(x) == ~optional(x)

\* the length of itertools.takewhile(_required, schema), line 275
RECURSIVE LeadRequired(_, _)
LeadRequired(schema, i) ==
    IF i <= Len(schema) /\ required(schema[i])
    THEN LeadRequired(schema, i + 1) ELSE i - 1

\* the keys of the dict schema that are not OPTIONALs, line 320
NonOptionalKeys(pairs) ==
    {pairs[i][1] : i \in {j \in 1..Len(pairs) : required(pairs[j][1])}}

\* the keys wrapped by the OPTIONAL keys of the dict schema
OptionalKeys(pairs) ==
    {pairs[i][1].v : i \in {j \in 1..Len(pairs) : optional(pairs[j][1])}}

IsPrimitive(key) == key.k = "type" /\ key.v \in primitives

Among(key, keys) == \E k \in keys : PyEq(k, key)

MessageKeys(pairs) == {pairs[i][1] : i \in 1..Len(pairs)}

\* schema.copy() updated with the wrapped key of every OPTIONAL key,
\* lines 344-347 and 520-523
RECURSIVE Unwrapped(_, _, _)
Unwrapped(pairs, i, acc) ==
    IF i > Len(pairs) THEN acc
    ELSE Unwrapped(pairs, i + 1,
                   IF optional(pairs[i][1])
                   THEN Store(acc, pairs[i][1].v, pairs[i][2]) ELSE acc)

schema_update(pairs) == Unwrapped(pairs, 1, pairs)

RECURSIVE validate(_, _)
RECURSIVE validate_each(_, _, _, _)
RECURSIVE validate_all(_, _, _)
RECURSIVE validate_values(_, _, _)
RECURSIVE validate_options(_, _, _)

\* _validate(schema[j], message[j]) for j = i..hi, up to the first that
\* does not match, lines 278-281 and 285-288
validate_each(schema, message, i, hi) ==
    IF i > hi THEN Valid
    ELSE IF validate(schema[i], message[i]).ok
    THEN validate_each(schema, message, i + 1, hi)
    ELSE validate(schema[i], message[i])

\* lines 267-290; i is bound by the first loop only when that loop runs
validate_tuple(schema, message) ==
    IF message.k # "tuple" THEN Invalid(message, schema)
    ELSE IF Len(message.v) > Len(schema.v) THEN Invalid(message, schema)
    ELSE LET n == Min2(LeadRequired(schema.v, 1), Len(message.v))
         IN  IF ~validate_each(schema.v, message.v, 1, n).ok
             THEN validate_each(schema.v, message.v, 1, n)
             ELSE IF n = 0 THEN Crash("UnboundLocalError")
             ELSE validate_each(schema.v, message.v, n + 1, Len(message.v))

\* lines 309-312
validate_all(sub_schema, message, i) ==
    IF i > Len(message) THEN Valid
    ELSE IF validate(sub_schema, message[i]).ok
    THEN validate_all(sub_schema, message, i + 1)
    ELSE validate(sub_schema, message[i])

\* lines 292-314
validate_list(schema, message) ==
    IF message.k # "list" THEN Invalid(message, schema)
    ELSE IF schema.v = <<>>
    THEN (IF message.v # <<>> THEN Invalid(message, schema) ELSE Valid)
    ELSE IF optional(schema.v[1])
    THEN (IF message.v = <<>> THEN Valid
          ELSE validate_all(schema.v[1].v, message.v, 1))
    ELSE IF message.v = <<>> THEN Invalid(message, schema)
    ELSE validate_all(schema.v[1], message.v, 1)

\* the sub-schema a message key is validated with, lines 351-354
key_schema(schema, key) ==
    IF HasKey(schema, key) THEN Lookup(schema, key)
    ELSE Lookup(schema, TypeV(TypeOf(key)))

\* the values of the message taken as they are
validate_values_skipped(schema, message, i) == Valid

\* lines 350-358, schema being the updated copy
validate_values(schema, message, i) ==
    IF i > Len(message) THEN Valid
    ELSE IF validate(key_schema(schema, message[i][1]), message[i][2]).ok
    THEN validate_values(schema, message, i + 1)
    ELSE validate(key_schema(schema, message[i][1]), message[i][2])

\* a type key that stands for keys without asking for one
validate_dict_unrequired(schema, message) ==
    IF message.k # "dict" THEN Invalid(message, schema)
    ELSE LET required_keys == {k \in NonOptionalKeys(schema.v) : ~IsPrimitive(k)}
             msg_keys == MessageKeys(message.v)
             wildcards == {k \in MessageKeys(schema.v) : IsPrimitive(k)}
             extra == {k \in msg_keys :
                          /\ ~Among(k, MessageKeys(schema.v))
                          /\ ~Among(k, OptionalKeys(schema.v))}
         IN  IF \E k \in required_keys : ~Among(k, msg_keys)
             THEN Invalid(message, schema)
             ELSE IF \E k \in extra : TypeV(TypeOf(k)) \notin wildcards
             THEN Invalid(message, schema)
             ELSE validate_values(schema_update(schema.v), message.v, 1)

\* lines 316-360
validate_dict(schema, message) ==
    IF message.k # "dict" THEN Invalid(message, schema)
    ELSE LET keys == NonOptionalKeys(schema.v)
             required_wildcards == {k \in keys : IsPrimitive(k)}
             required_keys == {k \in keys : ~IsPrimitive(k)}
             msg_keys == MessageKeys(message.v)
             wildcards == {k \in MessageKeys(schema.v) : IsPrimitive(k)}
             extra == {k \in msg_keys :
                          /\ ~Among(k, MessageKeys(schema.v))
                          /\ ~Among(k, OptionalKeys(schema.v))}
         IN  IF \E k \in required_keys : ~Among(k, msg_keys)
             THEN Invalid(message, schema)
             ELSE IF \E w \in required_wildcards :
                        \A k \in msg_keys : TypeOf(k) # w.v
             THEN Invalid(message, schema)
             ELSE IF \E k \in extra : TypeV(TypeOf(k)) \notin wildcards
             THEN Invalid(message, schema)
             ELSE validate_values(schema_update(schema.v), message.v, 1)

\* the verdict of the last option handed on when no option matches
RECURSIVE validate_options_last(_, _, _)
validate_options_last(schema, message, i) ==
    IF i > Len(schema.v) THEN Invalid(message, schema)
    ELSE IF validate(schema.v[i], message).ok THEN Valid
    ELSE IF i = Len(schema.v) THEN validate(schema.v[i], message)
    ELSE validate_options_last(schema, message, i + 1)

\* lines 362-367
validate_options(schema, message, i) ==
    IF i > Len(schema.v) THEN Invalid(message, schema)
    ELSE IF validate(schema.v[i], message).ok THEN Valid
    ELSE IF validate(schema.v[i], message).err # ""
    THEN validate(schema.v[i], message)
    ELSE validate_options(schema, message, i + 1)

validate_union(schema, message) == validate_options(schema, message, 1)

\* lines 369-370
validate_any(schema, message) == Valid

\* lines 372-375; calling a pred that is not callable raises
validate_rule(schema, message) ==
    IF schema.v \notin Preds THEN Crash("TypeError")
    ELSE IF pred(schema.v, message) THEN Valid
    ELSE Invalid(message, schema)

\* the types _validators has an entry for, lines 377-390
InstanceTypes == {"bool", "int", "long", "float", "str"}

\* lines 392-393
validate(schema, message) ==
    CASE TypeOf(schema) \in InstanceTypes -> validate_simple_instance(schema, message)
      [] schema.k = "type" -> validate_simple(schema, message)
      [] schema.k = "tuple" -> validate_tuple(schema, message)
      [] schema.k = "list" -> validate_list(schema, message)
      [] schema.k = "dict" -> validate_dict(schema, message)
      [] schema.k = "UNION" -> validate_union(schema, message)
      [] schema.k = "ANY" -> validate_any(schema, message)
      [] schema.k = "RULE" -> validate_rule(schema, message)
      [] OTHER -> Crash("KeyError")

---------------------------------------------------------------------------
(* Validation of the schema itself, schemas.py:400-484.  Returns (True,     *)
(* None) or (False, info).                                                  *)

ValidSchema == [ok |-> TRUE, info |-> <<>>]

InvalidSchema(info) == [ok |-> FALSE, info |-> <<info>>]

\* isinstance(key, _primitives + (long,)), line 435
IsPrimitiveInstance(key) ==
    key.k \in {"bool", "int", "float", "bytes", "date", "time", "datetime",
               "timedelta", "decimal"}

\* OPTIONAL(x) taken for x, lines 410-411, 425-426 and 432-433
Bare(x) == IF optional(x) THEN x.v ELSE x

RECURSIVE validate_schema(_)
RECURSIVE validate_schemas(_, _)

\* the first sub-schema that is not valid, lines 409-415, 443-448, 451-455
validate_schemas(subs, i) ==
    IF i > Len(subs) THEN ValidSchema
    ELSE IF validate_schema(subs[i]).ok THEN validate_schemas(subs, i + 1)
    ELSE validate_schema(subs[i])

\* lines 403-406
validate_simple_schema(schema) ==
    IF schema.v \in type_validations THEN ValidSchema ELSE InvalidSchema(schema)

\* lines 408-415
validate_tuple_schema(schema) ==
    validate_schemas([i \in 1..Len(schema.v) |-> Bare(schema.v[i])], 1)

\* lines 417-428
validate_list_schema(schema) ==
    IF schema.v = <<>> THEN ValidSchema
    ELSE IF Len(schema.v) # 1 THEN InvalidSchema(schema)
    ELSE validate_schema(Bare(schema.v[1]))

\* lines 430-448
validate_dict_schema(schema) ==
    IF \E i \in 1..Len(schema.v) :
          /\ ~IsPrimitiveInstance(Bare(schema.v[i][1]))
          /\ ~IsPrimitive(Bare(schema.v[i][1]))
    THEN InvalidSchema(schema)
    ELSE validate_schemas([i \in 1..Len(schema.v) |-> schema.v[i][2]], 1)

\* lines 450-455
validate_union_schema(schema) == validate_schemas(schema.v, 1)

\* lines 460-463
validate_rule_schema(schema) ==
    IF schema.v \in Preds THEN ValidSchema ELSE InvalidSchema(schema)

\* lines 480-484, with the table of lines 465-478
validate_schema(schema) ==
    CASE TypeOf(schema) \in InstanceTypes -> ValidSchema
      [] schema.k = "type" -> validate_simple_schema(schema)
      [] schema.k = "tuple" -> validate_tuple_schema(schema)
      [] schema.k = "list" -> validate_list_schema(schema)
      [] schema.k = "dict" -> validate_dict_schema(schema)
      [] schema.k = "UNION" -> validate_union_schema(schema)
      [] schema.k = "ANY" -> ValidSchema
      [] schema.k = "RULE" -> validate_rule_schema(schema)
      [] OTHER -> InvalidSchema(schema)

---------------------------------------------------------------------------
(* _transform and _untransform, schemas.py:491-577.  Each returns a value   *)
(* or raises.                                                               *)

Done(v) == [ok |-> TRUE, v |-> v, err |-> ""]

Fail(e) == [ok |-> FALSE, v |-> NoneV, err |-> e]

SeqOfSet(S) ==
    LET n == Cardinality(S)
    IN  CHOOSE s \in [1..n -> S] : \A x \in S : \E i \in 1..n : s[i] = x

\* lines 491-504
group_schema_keys(pairs) ==
    [required |-> Sorted(SeqOfSet({k \in NonOptionalKeys(pairs) :
                                      ~(k.k = "type" /\ k.v \in type_validations)})),
     optional |-> Sorted(SeqOfSet(OptionalKeys(pairs)))]

\* what iterating over x yields
Iterable(x) == x.k \in {"list", "tuple", "dict", "bytes", "text", "set"}

Items(x) ==
    CASE x.k = "dict" -> [i \in 1..Len(x.v) |-> x.v[i][1]]
      [] x.k \in {"bytes", "text"} -> [i \in 1..Len(x.v) |-> Node(x.k, <<x.v[i]>>)]
      [] OTHER -> x.v

RECURSIVE transform(_, _)
RECURSIVE transform_zip(_, _, _, _)
RECURSIVE transform_required(_, _, _, _, _)
RECURSIVE transform_optional(_, _, _, _, _)
RECURSIVE transform_rest(_, _, _, _, _)

\* [_transform(s, m) for s, m in izip(schema, message)], lines 508 and 511
transform_zip(schema, items, i, acc) ==
    IF i > Len(schema) \/ i > Len(items) THEN Done(acc)
    ELSE IF ~transform(schema[i], items[i]).ok
    THEN transform(schema[i], items[i])
    ELSE transform_zip(schema, items, i + 1,
                       Append(acc, transform(schema[i], items[i]).v))

\* the exact keys written out beside their values, as the other keys of
\* the message are
RECURSIVE transform_required_keyed(_, _, _, _, _)
transform_required_keyed(schema, message, keys, i, acc) ==
    IF i > Len(keys) THEN Done(acc)
    ELSE IF ~HasKey(message, keys[i]) THEN Fail("KeyError")
    ELSE Only({IF ~t.ok THEN t
               ELSE transform_required_keyed(schema, message, keys, i + 1,
                                             acc \o <<keys[i], t.v>>) :
               t \in {transform(Lookup(schema, keys[i]),
                                Lookup(message, keys[i]))}})

\* lines 526-527, schema being the updated copy
transform_required(schema, message, keys, i, acc) ==
    IF i > Len(keys) THEN Done(acc)
    ELSE IF ~HasKey(message, keys[i]) THEN Fail("KeyError")
    ELSE IF ~transform(Lookup(schema, keys[i]), Lookup(message, keys[i])).ok
    THEN transform(Lookup(schema, keys[i]), Lookup(message, keys[i]))
    ELSE transform_required(schema, message, keys, i + 1,
             Append(acc, transform(Lookup(schema, keys[i]),
                                   Lookup(message, keys[i])).v))

\* lines 528-532
transform_optional(schema, message, keys, i, acc) ==
    IF i > Len(keys) THEN Done(acc)
    ELSE IF ~HasKey(message, keys[i])
    THEN transform_optional(schema, message, keys, i + 1, Append(acc, NoneV))
    ELSE IF ~transform(Lookup(schema, keys[i]), Lookup(message, keys[i])).ok
    THEN transform(Lookup(schema, keys[i]), Lookup(message, keys[i]))
    ELSE transform_optional(schema, message, keys, i + 1,
             Append(acc, transform(Lookup(schema, keys[i]),
                                   Lookup(message, keys[i])).v))

\* lines 536-538: the sub-schema is looked up under the type of the value
transform_rest(schema, message, keys, i, acc) ==
    IF i > Len(keys) THEN Done(acc)
    ELSE IF ~HasKey(schema, TypeV(TypeOf(Lookup(message, keys[i]))))
    THEN Fail("KeyError")
    ELSE IF ~transform(Lookup(schema, TypeV(TypeOf(Lookup(message, keys[i])))),
                       Lookup(message, keys[i])).ok
    THEN transform(Lookup(schema, TypeV(TypeOf(Lookup(message, keys[i])))),
                   Lookup(message, keys[i]))
    ELSE transform_rest(schema, message, keys, i + 1,
             acc \o <<keys[i],
                      transform(Lookup(schema, TypeV(TypeOf(Lookup(message, keys[i])))),
                                Lookup(message, keys[i])).v>>)

\* the keys of the message left after lines 533-534, in the order the
\* message holds them
RestKeys(message, g) ==
    SelectSeq([i \in 1..Len(message) |-> message[i][1]],
              LAMBDA k : /\ ~Among(k, {g.required[i] : i \in 1..Len(g.required)})
                         /\ ~Among(k, {g.optional[i] : i \in 1..Len(g.optional)}))

\* lines 516-540, g the grouped keys and s the updated copy of the schema
transform_grouped(message, g, s) ==
    IF ~transform_required(s, message, g.required, 1, <<>>).ok
    THEN transform_required(s, message, g.required, 1, <<>>)
    ELSE IF ~transform_optional(s, message, g.optional, 1,
                 transform_required(s, message, g.required, 1, <<>>).v).ok
    THEN transform_optional(s, message, g.optional, 1,
             transform_required(s, message, g.required, 1, <<>>).v)
    ELSE transform_rest(s, message, RestKeys(message, g), 1,
             transform_optional(s, message, g.optional, 1,
                 transform_required(s, message, g.required, 1, <<>>).v).v)

\* a message that is no dict does not get here through Message.transform,
\* which validates first
transform_dict(schema, message) ==
    IF message.k # "dict" THEN Fail("TypeError")
    ELSE transform_grouped(message.v, group_schema_keys(schema.v),
                           schema_update(schema.v))

\* a sequence of results as a list or a tuple
Wrapped(kind, r) == IF r.ok THEN Done(Node(kind, r.v)) ELSE r

\* lines 506-540
transform(schema, message) ==
    IF schema.k \in {"list", "tuple"}
    THEN (IF ~Iterable(message) THEN Fail("TypeError")
          ELSE Wrapped(schema.k, transform_zip(schema.v, Items(message), 1, <<>>)))
    ELSE IF schema.k # "dict" THEN Done(message)
    ELSE Wrapped("list", transform_dict(schema, message))

RECURSIVE untransform(_, _)
RECURSIVE untransform_zip(_, _, _, _)
RECURSIVE untransform_keys(_, _, _, _, _, _, _)
RECURSIVE untransform_rest(_, _, _, _, _)

\* [_untransform(s, m) for s, m in izip(schema, message)], lines 544, 547
untransform_zip(schema, items, i, acc) ==
    IF i > Len(schema) \/ i > Len(items) THEN Done(acc)
    ELSE IF ~untransform(schema[i], items[i]).ok
    THEN untransform(schema[i], items[i])
    ELSE untransform_zip(schema, items, i + 1,
                         Append(acc, untransform(schema[i], items[i]).v))

\* lines 555-556 and 563-566: keys[i] paired with items[skip + i]; among
\* the optional keys (opt) a None is a key that was left out
untransform_keys(schema, keys, items, skip, i, acc, opt) ==
    IF i > Len(keys) \/ skip + i > Len(items) THEN Done(acc)
    ELSE IF opt /\ items[skip + i].k = "none"
    THEN untransform_keys(schema, keys, items, skip, i + 1, acc, opt)
    ELSE IF ~untransform(Lookup(schema, keys[i]), items[skip + i]).ok
    THEN untransform(Lookup(schema, keys[i]), items[skip + i])
    ELSE untransform_keys(schema, keys, items, skip, i + 1,
             Store(acc, keys[i],
                   untransform(Lookup(schema, keys[i]), items[skip + i]).v),
             opt)

\* lines 568-575: key and value by turns from items[i..]; the sub-schema
\* is looked up under the type of the value
untransform_rest(schema, items, i, acc, n) ==
    IF i + 1 > n THEN Done(acc)
    ELSE IF ~HasKey(schema, TypeV(TypeOf(items[i + 1]))) THEN Fail("KeyError")
    ELSE IF ~untransform(Lookup(schema, TypeV(TypeOf(items[i + 1]))),
                         items[i + 1]).ok
    THEN untransform(Lookup(schema, TypeV(TypeOf(items[i + 1]))), items[i + 1])
    ELSE untransform_rest(schema, items, i + 2,
             Store(acc, items[i],
                   untransform(Lookup(schema, TypeV(TypeOf(items[i + 1]))),
                               items[i + 1]).v), n)

\* lines 552-577, g the grouped keys and s the updated copy of the schema
untransform_grouped(schema, items, g, s) ==
    IF ~untransform_keys(schema, g.required, items, 0, 1, <<>>, FALSE).ok
    THEN untransform_keys(schema, g.required, items, 0, 1, <<>>, FALSE)
    ELSE IF ~untransform_keys(s, g.optional, items, Len(g.required), 1,
                 untransform_keys(schema, g.required, items, 0, 1, <<>>, FALSE).v,
                 TRUE).ok
    THEN untransform_keys(s, g.optional, items, Len(g.required), 1,
             untransform_keys(schema, g.required, items, 0, 1, <<>>, FALSE).v,
             TRUE)
    ELSE untransform_rest(s, items,
             Len(g.required) + Len(g.optional) + 1,
             untransform_keys(s, g.optional, items, Len(g.required), 1,
                 untransform_keys(schema, g.required, items, 0, 1, <<>>, FALSE).v,
                 TRUE).v,
             Len(items))

untransform_dict(schema, message) ==
    IF ~Iterable(message) THEN Fail("TypeError")
    ELSE untransform_grouped(schema.v, Items(message),
                             group_schema_keys(schema.v),
                             schema_update(schema.v))

\* lines 542-577
untransform(schema, message) ==
    IF schema.k \in {"list", "tuple"}
    THEN (IF ~Iterable(message) THEN Fail("TypeError")
          ELSE Wrapped(schema.k, untransform_zip(schema.v, Items(message), 1, <<>>)))
    ELSE IF schema.k # "dict" THEN Done(message)
    ELSE Wrapped("dict", untransform_dict(schema, message))

---------------------------------------------------------------------------
(* dumps and loads (schemas.py:162) applied to a tree in one step: the      *)
(* recursion of pure_python_dumps and _loads followed to its end.           *)

\* the items a container's dumper iterates over, a dict's keys and values
\* by turns (serialization.py:257, 276-277)
Flat(x) ==
    IF x.k = "dict"
    THEN [i \in 1..(2 * Len(x.v)) |-> x.v[(i + 1) \div 2][2 - (i % 2)]]
    ELSE x.v

RECURSIVE dumps_tree(_, _, _, _)
RECURSIVE dumps_items(_, _, _, _, _)

\* the payloads of items[i..] joined to acc
dumps_items(items, i, depth, lzfOn, acc) ==
    IF i > Len(items) THEN Ok(acc)
    ELSE Only({IF ~p.ok THEN p
               ELSE dumps_items(items, i + 1, depth, lzfOn, acc \o p.b) :
               p \in {dumps_tree(items[i], depth, child_compress(TRUE), lzfOn)}})

\* pure_python_dumps(x, None, depth, compress), serialization.py:388-410
dumps_tree(x, depth, compress, lzfOn) ==
    Only({IF e.st = "raise" THEN Err(e.err)
          ELSE IF e.st = "leaf" THEN Ok(finish(e.kind, e.data, compress, lzfOn))
          ELSE Only({IF ~b.ok THEN b
                     ELSE Ok(finish(e.kind, b.b, compress, lzfOn)) :
                     b \in {dumps_items(Flat(x), 1, depth + 1, lzfOn, e.data)}}) :
          e \in {dumps_enter(<<x>>, 1, depth, "none", <<>>)}})

\* hash(x) succeeds
RECURSIVE HashableTree(_)
HashableTree(x) ==
    IF x.k \in {"list", "set", "dict"} THEN FALSE
    ELSE IF x.k \in {"tuple", "frozenset"}
    THEN \A j \in 1..Len(x.v) : HashableTree(x.v[j])
    ELSE TRUE

\* set(items): the items without the later equal ones
RECURSIVE DistinctItems(_, _, _)
DistinctItems(items, i, acc) ==
    IF i > Len(items) THEN acc
    ELSE DistinctItems(items, i + 1,
                       IF Among(items[i], {acc[j] : j \in 1..Len(acc)}) THEN acc
                       ELSE Append(acc, items[i]))

\* result[key] = value for the keys and values of items[i..]
RECURSIVE PairedItems(_, _, _)
PairedItems(items, i, acc) ==
    IF i + 1 > Len(items) THEN acc
    ELSE PairedItems(items, i + 2, Store(acc, items[i], items[i + 1]))

\* the object a container's loader returns for the items it has read,
\* serialization.py:528-602
built_tree(code, items, width) ==
    Only({IF kind = "dict"
          THEN (IF \E j \in 1..Len(items) : j % 2 = 1 /\ ~HashableTree(items[j])
                THEN LoadErr("TypeError: unhashable type")
                ELSE Loaded(DictV(PairedItems(items, 1, <<>>)), width))
          ELSE IF kind = "set"
          THEN (IF \E j \in 1..Len(items) : ~HashableTree(items[j])
                THEN LoadErr("TypeError: unhashable type")
                ELSE Loaded(SetV(DistinctItems(items, 1, <<>>)), width))
          ELSE Loaded(Node(kind, items), width) :
          kind \in {KindOfCode(code)}})

RECURSIVE loads_tree(_, _)
RECURSIVE loads_items(_, _, _, _, _, _)

\* a container's loader with n items to read, those of acc read already;
\* x begins at d[xoff] and width bytes of it are used
loads_items(d, code, n, xoff, width, acc) ==
    IF Len(acc) >= n THEN built_tree(code, acc, width)
    ELSE Only({IF ~c.ok THEN c
               ELSE loads_items(d, code, n, xoff, width + c.w + 1,
                                Append(acc, c.v)) :
               c \in {loads_tree(d, xoff + width)}})

\* _loads(d[pos:]), serialization.py:659-661
loads_tree(d, pos) ==
    Only({IF r.st = "raise" THEN LoadErr(r.err)
          ELSE IF r.st = "leaf" THEN Loaded(r.v, r.w)
          ELSE loads_items(d, r.code, r.n, pos + 1, r.w, <<>>) :
          r \in {loads_enter(d, pos)}})

\* pure_python_loads(w), serialization.py:664-679
loads_bytes(w, lzfOn) ==
    Only({IF ~u.ok THEN LoadErr(u.err) ELSE loads_tree(u.b, 0) :
          u \in {loads_unwrap(w, lzfOn)}})

---------------------------------------------------------------------------
(* The Message class, schemas.py:584-631                                    *)

\* _validation before validate has stored anything
NotValidated == Crash("None")

\* the instance and what the call comes to
After(m, op, arg, v, err) == [msg |-> m, ret |-> Call(op, arg, v, err)]

\* a verdict that is not kept
validated_unstored(m, op, r) ==
    IF r.err # "" THEN After(m, op, NoneV, NoneV, r.err)
    ELSE IF ~r.ok THEN After(m, op, NoneV, r.info, "InvalidMessage")
    ELSE After(m, op, NoneV, NoneV, "")

\* lines 609-613, r being the validation in hand: the one stored, or the
\* one _validate has just returned or raised
validated(m, op, r) ==
    IF r.err # "" THEN After(m, op, NoneV, NoneV, r.err)
    ELSE IF ~r.ok
    THEN After([m EXCEPT !.validation = r], op, NoneV, r.info, "InvalidMessage")
    ELSE After([m EXCEPT !.validation = r], op, NoneV, NoneV, "")

\* self.validate() for the method op
message_validate(schema, m, op) ==
    validated(m, op, IF m.validation = NotValidated
                     THEN validate(schema, m.message) ELSE m.validation)

\* lines 617-619, a the outcome of self.validate() and t the
\* transformation in hand
transformed(a, op, t) ==
    IF a.ret.err # "" THEN a
    ELSE IF ~t.ok THEN After(a.msg, op, NoneV, NoneV, t.err)
    ELSE After([a.msg EXCEPT !.transformation = t.v], op, NoneV, t.v, "")

\* lines 615-619
message_transform(schema, m, op) ==
    transformed(message_validate(schema, m, op), op,
                IF m.transformation = NoneV
                THEN transform(schema, m.message) ELSE Done(m.transformation))

\* line 623, a the outcome of self.transform() and p what dumps returned
dumped(a, p) ==
    IF a.ret.err # "" THEN a
    ELSE IF ~p.ok THEN After(a.msg, "dumps", NoneV, NoneV, p.err)
    ELSE After(a.msg, "dumps", NoneV, p.b, "")

\* lines 621-623
message_dumps(schema, m, lzfOn) ==
    Only({dumped(a, IF a.ret.err # "" THEN Err("")
                    ELSE dumps_tree(a.ret.v, 0, TRUE, lzfOn)) :
          a \in {message_transform(schema, m, "dumps")}})

\* lines 625-627
message_untransform(schema, x) ==
    Only({Call("untransform", x, r.v, r.err) : r \in {untransform(schema, x)}})

\* lines 629-631, l being what loads returned or raised
message_loaded(schema, w, l) ==
    IF ~l.ok THEN Call("loads", w, NoneV, l.err)
    ELSE Only({IF ~r.ok THEN Call("loads", w, NoneV, r.err)
               ELSE Call("loads", w, Message(r.v), "") :
               r \in {untransform(schema, l.v)}})

message_loads(schema, w, lzfOn) ==
    message_loaded(schema, w, loads_bytes(w, lzfOn))

---------------------------------------------------------------------------
(* Schemas and messages the Message class is exercised with *)

Ka == StrV(<<97>>)
Kb == StrV(<<98>>)
Kk == StrV(<<107>>)
TInt == TypeV("int")
TStr == TypeV("str")

DictSchemas ==
    {DictV(<<<<Ka, TInt>>>>),
     DictV(<<<<Kb, TInt>>, <<Ka, TStr>>>>),
     DictV(<<<<Ka, TInt>>, <<OPTIONAL(Kb), TStr>>>>),
     DictV(<<<<OPTIONAL(Kb), ANY>>, <<Ka, ANY>>>>),
     DictV(<<<<Ka, TInt>>, <<TStr, TInt>>>>),
     DictV(<<<<TStr, TStr>>>>),
     DictV(<<<<TStr, TInt>>, <<TInt, TStr>>>>),
     DictV(<<<<Ka, TInt>>, <<TInt, TInt>>>>),
     DictV(<<<<OPTIONAL(TStr), TInt>>>>),
     DictV(<<<<One, TStr>>, <<Ka, TInt>>>>),
     DictV(<<<<Ka, DictV(<<<<Kb, TInt>>>>)>>>>),
     DictV(<<<<Ka, DictV(<<<<OPTIONAL(Kb), TInt>>>>)>>>>),
     DictV(<<<<NoneV, TInt>>>>),
     DictV(<<<<Ka, OPTIONAL(TInt)>>>>),
     DictV(<<<<One, TInt>>, <<OPTIONAL(Two), TInt>>,
             <<OPTIONAL(IntV(IntOf(3))), TInt>>>>)}

SchemaPool ==
    {TInt, TStr, TypeV("bool"), TypeV("float"), TypeV("list"), One, Ka, NoneV,
     ANY, RULE("notnone"), RULE("notcallable"), UNIONV(<<TInt, TStr>>),
     UNIONV(<<ListV(<<TInt>>), TInt>>),
     ListV(<<>>), ListV(<<TInt>>), ListV(<<OPTIONAL(TStr)>>),
     ListV(<<TInt, TStr>>), ListV(<<DictV(<<<<Ka, TInt>>>>)>>),
     TupleV(<<>>), TupleV(<<TInt>>), TupleV(<<TInt, TStr>>),
     TupleV(<<TInt, OPTIONAL(TStr)>>), TupleV(<<OPTIONAL(TInt)>>),
     TupleV(<<OPTIONAL(TInt), TStr>>), TupleV(<<ListV(<<TInt>>), TInt>>),
     TupleV(<<One, TInt>>)}
    \cup DictSchemas

DictMessages ==
    {DictV(<<>>),
     DictV(<<<<Ka, One>>>>),
     DictV(<<<<Ka, Kb>>, <<Kb, Two>>>>),
     DictV(<<<<Kb, Ka>>, <<Ka, One>>>>),
     DictV(<<<<Ka, NoneV>>, <<Kb, NoneV>>>>),
     DictV(<<<<Ka, One>>, <<Kk, Two>>>>),
     DictV(<<<<Kk, Ka>>>>),
     DictV(<<<<Kk, One>>, <<Two, Ka>>>>),
     DictV(<<<<One, Ka>>, <<Ka, One>>>>),
     DictV(<<<<Ka, One>>, <<BoolV(TRUE), Two>>>>),
     DictV(<<<<Ka, DictV(<<<<Kb, One>>>>)>>>>),
     DictV(<<<<One, Two>>>>),
     DictV(<<<<One, Two>>, <<Two, One>>, <<IntV(IntOf(3)), One>>>>)}

MessagePool ==
    {NoneV, BoolV(TRUE), One, Two, FloatV(<<63, 240, 0, 0, 0, 0, 0, 0>>),
     Ka, Kb,
     ListV(<<>>), ListV(<<One>>), ListV(<<One, Two>>), ListV(<<Ka, Kb, Ka>>),
     ListV(<<One, Ka>>), ListV(<<DictV(<<<<Ka, One>>>>), DictV(<<<<Ka, Two>>>>)>>),
     TupleV(<<>>), TupleV(<<One>>), TupleV(<<One, Ka>>), TupleV(<<One, Two>>),
     TupleV(<<ListV(<<One, Two>>), One>>)}
    \cup DictMessages

---------------------------------------------------------------------------
(* The Message class at work *)

InitSchema ==
    /\ scen = "schema"
    /\ SCHEMA \in SchemaPool
    /\ cls = "class"
    /\ \E m \in MessagePool : msg = Message(m)
    /\ ret = NoCall
    /\ lzf \in BOOLEAN
    /\ heap = <<>>
    /\ root = 1
    /\ dflt = "none"
    /\ pc = "schema"
    /\ estk = <<>>
    /\ out = NoResult
    /\ dlog = <<>>
    /\ tcode = Unserializable
    /\ wire = <<>>
    /\ via = NoVia
    /\ dstk = <<>>
    /\ data = <<>>
    /\ oheap = <<>>
    /\ dec = NotLoaded
    /\ dec0 = NoPrior

\* schema = schema.copy(), lines 344, 520 and 557: the name is bound to a
\* new dict with the items of the caller's, own
schema_in_place(pairs) == [own |-> pairs, bound |-> pairs, same |-> TRUE]

schema_copy(pairs) == [own |-> pairs, bound |-> pairs, same |-> FALSE]

\* schema.update(...), lines 345-347, 521-523 and 558-560: the wrapped keys
\* are stored in the dict the name is bound to
schema_updated(b) ==
    Only({[own |-> IF b.same THEN u ELSE b.own, bound |-> u, same |-> b.same] :
          u \in {schema_update(b.bound)}})

\* the schema object after a call of _validate, _transform or _untransform
\* that came to every dict schema in it
RECURSIVE schema_left(_)
schema_left(s) ==
    IF s.k = "dict"
    THEN Only({DictV([i \in 1..Len(own) |->
                        <<own[i][1], schema_left(own[i][2])>>]) :
               own \in {schema_updated(schema_copy(s.v)).own}})
    ELSE IF s.k \in {"list", "tuple", "UNION"}
    THEN Node(s.k, [i \in 1..Len(s.v) |-> schema_left(s.v[i])])
    ELSE IF s.k = "OPTIONAL" THEN OPTIONAL(schema_left(s.v))
    ELSE s

codec_vars ==
    <<scen, heap, root, dflt, lzf, pc, estk, out, dlog, tcode, wire, via,
      dstk, data, oheap, dec, dec0>>

\* class M(Message): SCHEMA = ..., lines 591-599
ClassStatement ==
    /\ cls = "class"
    /\ \E r \in {validate_schema(SCHEMA)} :
          /\ cls' = IF r.ok THEN "defined" ELSE "InvalidSchema"
          /\ ret' = Call("class", NoneV, r.info, IF r.ok THEN "" ELSE "InvalidSchema")
    /\ UNCHANGED <<SCHEMA, msg, codec_vars>>

\* msg.validate()
Validate ==
    /\ cls = "defined"
    /\ \E a \in {message_validate(SCHEMA, msg, "validate")} :
          /\ msg' = a.msg
          /\ ret' = a.ret
    /\ SCHEMA' = schema_left(SCHEMA)
    /\ UNCHANGED <<cls, codec_vars>>

\* msg.transform()
Transform ==
    /\ cls = "defined"
    /\ \E a \in {message_transform(SCHEMA, msg, "transform")} :
          /\ msg' = a.msg
          /\ ret' = a.ret
    /\ SCHEMA' = schema_left(SCHEMA)
    /\ UNCHANGED <<cls, codec_vars>>

\* msg.dumps()
Dumps ==
    /\ cls = "defined"
    /\ \E a \in {message_dumps(SCHEMA, msg, lzf)} :
          /\ msg' = a.msg
          /\ ret' = a.ret
    /\ SCHEMA' = schema_left(SCHEMA)
    /\ UNCHANGED <<cls, codec_vars>>

\* M.untransform(x), x being what msg.transform() has just returned
Untransform ==
    /\ cls = "defined"
    /\ ret.op = "transform"
    /\ ret.err = ""
    /\ ret' = message_untransform(SCHEMA, ret.v)
    /\ SCHEMA' = schema_left(SCHEMA)
    /\ UNCHANGED <<cls, msg, codec_vars>>

\* M.loads(w), w being what msg.dumps() has just returned
Loads ==
    /\ cls = "defined"
    /\ ret.op = "dumps"
    /\ ret.err = ""
    /\ ret' = message_loads(SCHEMA, ret.v, lzf)
    /\ SCHEMA' = schema_left(SCHEMA)
    /\ UNCHANGED <<cls, msg, codec_vars>>

NextSchema ==
    \/ ClassStatement
    \/ Validate
    \/ Transform
    \/ Dumps
    \/ Untransform
    \/ Loads

SpecSchema == InitSchema /\ [][NextSchema]_vars

---------------------------------------------------------------------------
(* Measures the properties are stated with *)

\* the objects a container holds
KidSet(n) ==
    IF n.k \in SeqKinds THEN {n.v[j] : j \in 1..Len(n.v)}
    ELSE IF n.k = "dict"
    THEN {n.v[j][1] : j \in 1..Len(n.v)} \cup {n.v[j][2] : j \in 1..Len(n.v)}
    ELSE {}

\* a container holding object i, or 0 when there is none
Holder(h, i) ==
    IF \E j \in 1..Len(h) : i \in KidSet(h[j])
    THEN CHOOSE j \in 1..Len(h) : i \in KidSet(h[j])
    ELSE 0

Up(h) == <<>> \o [i \in 1..Len(h) |-> Holder(h, i)]

Compose(g, f) == <<>> \o [i \in 1..Len(g) |-> IF g[i] = 0 THEN 0 ELSE f[g[i]]]

\* f applied k times, for k >= 1
RECURSIVE UpBy(_, _)
UpBy(f, k) ==
    IF k = 1 THEN f
    ELSE IF k % 2 = 0 THEN Only({Compose(g, g) : g \in {UpBy(f, k \div 2)}})
    ELSE Only({Compose(g, f) : g \in {UpBy(f, k - 1)}})

\* some object of h is nested inside n or more containers
NestedIn(h, n) ==
    \E f \in {Up(h)} : \E g \in {UpBy(f, n)} : \E i \in 1..Len(h) : g[i] # 0

Deep(h) == h # <<>> /\ NestedIn(h, MAX_DEPTH)

---------------------------------------------------------------------------
(* Properties *)

Finished == pc \notin {"start", "dumping"}

\* frozenset taken for set: loads builds a set for both, and the two are
\* equal when their elements are
Thawed(h) ==
    [i \in 1..Len(h) |-> IF h[i].k = "frozenset" THEN SetV(h[i].v) ELSE h[i]]

\* C1: for every value of the supported domain, loads(dumps(v)) returns a
\* value equal to v (objects compared one by one, NaN equal to NaN, a
\* frozenset equal to the set of its elements).
C1_RoundTrip ==
    (pc = "loaded" /\ via.how = "asis" /\ dlog = <<>>)
        => /\ dec.ok
           /\ dec.v = root
           /\ Thawed(oheap) = Thawed(heap)

\* C2: for every schema and every message that validates against it,
\* transform returns, untransform of what it returned gives a value equal to
\* the message, and the message of Message.loads(msg.dumps()) is equal to
\* the message.
C2_SchemaRoundTrip ==
    msg.validation.ok
        => /\ ret.op = "transform" => ret.err = ""
           /\ ret.op = "untransform"
                 => ret.err = "" /\ PyEq(ret.v, msg.message)
           /\ ret.op = "loads"
                 => ret.err = "" /\ PyEq(ret.v.message, msg.message)

InBits(x, e) == IntLe(IntNeg(Pow2(e)), x) /\ IntLt(x, Pow2(e))

IntTag(x) ==
    IF InBits(x, 7) THEN 2
    ELSE IF InBits(x, 15) THEN 3
    ELSE IF InBits(x, 31) THEN 4
    ELSE IF InBits(x, 63) THEN 5
    ELSE 6

SizeTag(n, short, med, long) ==
    Only({IF size < 2 ^ 8 THEN short ELSE IF size < 2 ^ 16 THEN med ELSE long
          : size \in {n}})

\* the number of bytes of the UTF-8 form of the characters cps: one for each
\* character and one more for each of the limits 2^7, 2^11, 2^16 it reaches
Utf8Size(cps) ==
    Len(cps)
    + Len(SelectSeq(cps, LAMBDA c : c >= 2 ^ 7))
    + Len(SelectSeq(cps, LAMBDA c : c >= 2 ^ 11))
    + Len(SelectSeq(cps, LAMBDA c : c >= 2 ^ 16))

NarrowestTag(x) ==
    CASE x.k = "int" -> IntTag(x.v)
      [] x.k = "bytes" -> SizeTag(Len(x.v), 8, 24, 9)
      [] x.k = "text" -> SizeTag(Utf8Size(x.v), 10, 25, 11)
      [] x.k = "list" -> SizeTag(Len(x.v), 16, 20, 12)
      [] x.k = "tuple" -> SizeTag(Len(x.v), 17, 21, 13)
      [] x.k \in {"set", "frozenset"} -> SizeTag(Len(x.v), 18, 22, 14)
      [] x.k = "dict" -> SizeTag(Len(x.v), 19, 23, 15)
      [] OTHER -> tcode

\* C3: _get_type_code gives an integer the tag of the narrowest of the
\* widths 8, 16, 32, 64 bits that holds it, else huge, and gives a string or
\* a container the short tag below 2^8, the medium tag below 2^16 and the
\* long tag from there on, the size of text being its UTF-8 byte length.
C3_NarrowestTag == pc = "coded" => tcode = NarrowestTag(heap[root])

C3_TextByBytes ==
    /\ pc = "coded"
    /\ heap[root].k = "text"
    /\ Len(heap[root].v) < 256
    /\ tcode = 25

\* every object has a tag and a dumper that accepts it
Plain(h) ==
    \A i \in 1..Len(h) :
        /\ get_type_code(h[i]) # Unserializable
        /\ h[i].k \in {"time", "datetime"} => ~h[i].v.tzinfo

\* C4: dumps raises the depth error when some object of the value is nested
\* inside 256 or more containers, a list that contains itself included; it
\* never raises it when every object is nested inside fewer; and a call
\* that raises returns no bytes.
C4_DepthLimit ==
    pc = "dumped"
        => /\ Deep(heap) => ~out.ok
           /\ (Deep(heap) /\ Plain(heap) /\ dflt # "notcallable")
                 => out.err = DepthError
           /\ out.err = DepthError => Deep(heap)
           /\ ~out.ok => out.b = <<>>

C4_CycleRaises ==
    /\ pc = "dumped"
    /\ heap = <<ListV(<<1>>)>>
    /\ out.err = DepthError

\* C5: loads never returns a value in which an object is nested inside 256
\* or more containers.
C5_DecodeDepthLimit == (pc = "loaded" /\ dec.ok) => ~Deep(oheap)

\* the length or count that follows the tag of w asks for more bytes than w
\* has left
TopOverrun(w) ==
    LET tag == w[1]
        size == IF tag \in ShortKinds \cup {8, 10} THEN 1
                ELSE IF tag \in MedKinds \cup {24, 25} THEN 2 ELSE 4
        each == IF tag \in HashKinds THEN 2 ELSE 1
    IN  /\ tag \in ContainerCodes \cup {6, 8, 9, 10, 11, 24, 25}
        /\ Len(w) >= 1 + size
        /\ each * be_value(SubSeq(w, 2, 1 + size)) > Len(w) - 1 - size

\* C6: loads raises when the length or count after the first tag asks for
\* more bytes or items than the input has left.
C6_ShortInputRaises ==
    (pc = "loaded" /\ wire # <<>> /\ TopOverrun(wire)) => ~dec.ok

\* C7: every call of pure_python_dumps but the outermost is made with
\* compress off, and in tag ++ body of a returned payload the tag of every
\* nested value has its high bit clear.
C7_InnerUncompressed ==
    /\ \A i \in 2..Len(estk) : ~estk[i].compress
    /\ (pc = "dumped" /\ out.ok)
          => \A j \in 1..Len(out.marks) : out.body[out.marks[j]] < 128

C7_OuterOnly ==
    /\ pc = "dumped"
    /\ out.ok
    /\ out.b[1] >= 128
    /\ Len(out.marks) >= 2

\* C8: a returned payload has the compression bit on its tag only when lzf
\* is there, the body has more than 5 bytes and lzf made at most
\* len(body) - 5 bytes of it, so that the envelope is shorter than
\* tag ++ body; otherwise the payload is tag ++ body.
C8_CompressionPays ==
    (pc = "dumped" /\ out.ok)
        => /\ out.b[1] >= 128
              => /\ lzf
                 /\ Len(out.body) > 5
                 /\ out.b[1] = out.tag + 128
                 /\ SubSeq(out.b, 2, 5) = pack_signed(Len(out.body), 4).b
                 /\ Len(out.b) - 5 <= Len(out.body) - 5
                 /\ Len(out.b) < Len(PlainOf(out))
           /\ out.b[1] < 128 => out.b = PlainOf(out)
           /\ ~lzf => out.b[1] < 128

C8_Enveloped ==
    /\ pc = "dumped"
    /\ out.ok
    /\ out.b[1] >= 128
    /\ heap[root].k = "bytes"

\* C9: with lzf there, loads of the enveloped form of a payload returns
\* what loads of tag ++ body returns.
C9_EnvelopeSameValue ==
    (pc = "loaded" /\ via.how = "replain" /\ lzf)
        => /\ dec.ok = dec0.ok
           /\ dec.err = dec0.err
           /\ dec.v = dec0.v
           /\ oheap = dec0.heap

C9_BothLoaded ==
    /\ pc = "loaded"
    /\ via.how = "replain"
    /\ lzf
    /\ dec.ok
    /\ dec0.ok
    /\ Len(oheap) >= 2

\* C10: default is called only with objects that have no tag, at most once
\* in each call of pure_python_dumps and never with what default returned;
\* a result without a tag makes dumps raise, so does an object without a
\* tag when there is no default, and without a default nothing is called.
C10_DefaultCalls ==
    /\ \A i \in 1..Len(dlog) :
          /\ get_type_code(heap[dlog[i].arg]) = Unserializable
          /\ \A j \in 1..(i - 1) : dlog[j].res = 0 \/ dlog[j].res # dlog[i].arg
    /\ dflt = "none" => dlog = <<>>
    /\ pc = "dumped"
          => /\ (dflt = "none" /\ HasUnmapped(heap)) => ~out.ok
             /\ (\E i \in 1..Len(dlog) :
                    /\ dlog[i].res # 0
                    /\ get_type_code(heap[dlog[i].res]) = Unserializable)
                  => out.err = "ValueError: cannot be serialized"

\* each step is one call or one return of pure_python_dumps
C10_DefaultOnce == [][Len(dlog') <= Len(dlog) + 1]_vars

C10_Default == [](C10_DefaultCalls) /\ C10_DefaultOnce

C10_DefaultUsed ==
    /\ pc = "dumped"
    /\ out.ok
    /\ Len(dlog) >= 2

---------------------------------------------------------------------------
(* Properties of the schema layer *)

\* a schema that is an instance of bool, int, long, float or str
InstanceSchema(s) == TypeOf(s) \in InstanceTypes

\* C11: where the schema is an atomic instance, transform puts None in the
\* place of the message's value, at the top and at the positions of a tuple
\* schema, and untransform gives the value back.
C11_InstanceCollapses ==
    /\ (ret.op = "transform" /\ ret.err = "")
          => /\ InstanceSchema(SCHEMA) => ret.v = NoneV
             /\ SCHEMA.k = "tuple"
                   => \A i \in 1..Len(ret.v.v) :
                         InstanceSchema(SCHEMA.v[i]) => ret.v.v[i] = NoneV
    /\ (ret.op = "untransform" /\ ret.err = "" /\ InstanceSchema(SCHEMA))
          => PyEq(ret.v, SCHEMA)

\* the keys of a dict schema a message must hold: neither OPTIONALs nor types
ExactKeys(pairs) == {k \in NonOptionalKeys(pairs) : k.k # "type"}

\* the number of the keys that sort before key
RankIn(keys, key) == Cardinality({k \in keys : PyLess(k, key)})

\* the keys of the message that no exact or OPTIONAL key of the schema names
WildKeys(schema, message) ==
    {k \in MessageKeys(message) :
        ~Among(k, ExactKeys(schema)) /\ ~Among(k, OptionalKeys(schema))}

\* t is laid out as the transformation of the dict message under the dict
\* schema: the values of the exact keys in sorted order, the values of the
\* OPTIONAL keys in sorted order with None for a key left out, then each other
\* key of the message followed by its value, every value transformed under
\* the sub-schema of its key
DictLayout(schema, message, t) ==
    LET req == ExactKeys(schema)
        opt == OptionalKeys(schema)
        rest == WildKeys(schema, message)
        nr == Cardinality(req)
        no == Cardinality(opt)
    IN  /\ Len(t) = nr + no + 2 * Cardinality(rest)
        /\ \A k \in req :
              Done(t[1 + RankIn(req, k)])
                 = transform(Lookup(schema, k), Lookup(message, k))
        /\ \A k \in opt :
              Done(t[nr + 1 + RankIn(opt, k)])
                 = IF HasKey(message, k)
                   THEN transform(Lookup(schema, OPTIONAL(k)), Lookup(message, k))
                   ELSE Done(NoneV)
        /\ {t[nr + no + 2 * j - 1] : j \in 1..Cardinality(rest)} = rest
        /\ \A j \in 1..Cardinality(rest) :
              Done(t[nr + no + 2 * j])
                 = transform(Lookup(schema, TypeV(TypeOf(t[nr + no + 2 * j - 1]))),
                             Lookup(message, t[nr + no + 2 * j - 1]))

\* C12: for a dict schema and a message valid for it, transform returns the
\* list DictLayout describes, of as many entries as there are exact keys and
\* OPTIONAL keys plus two for each other key of the message; {a: int, b: int}
\* applied to {a: 1, b: 2} gives [1, 2].
C12_DictLayout ==
    /\ (ret.op = "transform" /\ SCHEMA.k = "dict" /\ msg.validation.ok)
          => /\ ret.err = ""
             /\ ret.v.k = "list"
             /\ DictLayout(SCHEMA.v, msg.message.v, ret.v.v)
    /\ transform(DictV(<<<<Ka, TInt>>, <<Kb, TInt>>>>),
                 DictV(<<<<Ka, One>>, <<Kb, Two>>>>))
          = Done(ListV(<<One, Two>>))

\* C13: under a list schema [s] or [OPTIONAL(s)] transform returns a list of
\* one entry for each element of a valid message, in order, the element
\* transformed under s, and untransform does the same with the list it is
\* given.
C13_ListElementwise ==
    (SCHEMA.k = "list" /\ Len(SCHEMA.v) = 1 /\ msg.validation.ok)
       => /\ ret.op = "transform"
                => /\ ret.err = ""
                   /\ ret.v.k = "list"
                   /\ Len(ret.v.v) = Len(msg.message.v)
                   /\ \A i \in 1..Len(ret.v.v) :
                         Done(ret.v.v[i])
                            = transform(Bare(SCHEMA.v[1]), msg.message.v[i])
          /\ ret.op = "untransform"
                => /\ ret.err = ""
                   /\ ret.v.k = "list"
                   /\ Len(ret.v.v) = Len(ret.arg.v)
                   /\ \A i \in 1..Len(ret.v.v) :
                         Done(ret.v.v[i])
                            = untransform(Bare(SCHEMA.v[1]), ret.arg.v[i])

\* no OPTIONAL key of the schema, or of a dict schema within it, is left
\* out of the message
RECURSIVE NoKeyLeftOut(_, _)
NoKeyLeftOut(s, m) ==
    IF s.k = "dict" /\ m.k = "dict"
    THEN /\ \A k \in OptionalKeys(s.v) : HasKey(m.v, k)
         /\ \A i \in 1..Len(m.v) :
               NoKeyLeftOut(key_schema(schema_update(s.v), m.v[i][1]), m.v[i][2])
    ELSE IF s.k = "list" /\ m.k = "list" /\ Len(s.v) = 1
    THEN \A i \in 1..Len(m.v) : NoKeyLeftOut(Bare(s.v[1]), m.v[i])
    ELSE IF s.k = "tuple" /\ m.k = "tuple"
    THEN \A i \in 1..Min2(Len(s.v), Len(m.v)) : NoKeyLeftOut(Bare(s.v[i]), m.v[i])
    ELSE TRUE

\* msg.dumps() has returned under a dict schema that has an exact key
DumpedUnderExactKey ==
    /\ ret.op = "dumps"
    /\ ret.err = ""
    /\ SCHEMA.k = "dict"
    /\ ExactKeys(SCHEMA.v) # {}

\* dumps(msg.message), the message encoded as it is
RawPayload == dumps_tree(msg.message, 0, TRUE, lzf)

NonOptionalEntries(schema) ==
    Cardinality({i \in 1..Len(schema) : required(schema[i])})

\* C15: a tuple message that validates against a tuple schema has an item for
\* every non-OPTIONAL entry: its length lies between the number of
\* non-OPTIONAL entries and the length of the schema, and each item matches
\* the sub-schema at its position.
C15_TupleSuppliesRequired ==
    (ret.op = "validate" /\ ret.err = "" /\ SCHEMA.k = "tuple")
       => /\ msg.message.k = "tuple"
          /\ NonOptionalEntries(SCHEMA.v) <= Len(msg.message.v)
          /\ Len(msg.message.v) <= Len(SCHEMA.v)
          /\ \A i \in 1..Len(msg.message.v) :
                validate(Bare(SCHEMA.v[i]), msg.message.v[i]).ok


\* the verdict the grammar gives for the items after the non-OPTIONAL
\* entries: each matched against the schema its OPTIONAL wraps
RECURSIVE OptionalVerdict(_, _, _)
OptionalVerdict(schema, message, i) ==
    IF i > Len(message) THEN Valid
    ELSE IF validate(Bare(schema[i]), message[i]).ok
    THEN OptionalVerdict(schema, message, i + 1)
    ELSE validate(Bare(schema[i]), message[i])

\* the tuple, no longer than its schema, matches every non-OPTIONAL entry
\* and the entries after those are OPTIONALs
ReachesOptionals(schema, message) ==
    /\ schema.k = "tuple"
    /\ message.k = "tuple"
    /\ Len(message.v) <= Len(schema.v)
    /\ LeadRequired(schema.v, 1) <= Len(message.v)
    /\ \A i \in 1..LeadRequired(schema.v, 1) :
          validate(schema.v[i], message.v[i]).ok
    /\ \A i \in (LeadRequired(schema.v, 1) + 1)..Len(schema.v) :
          optional(schema.v[i])

\* C16: in tuple validation the items that follow the non-OPTIONAL entries
\* are matched in order against the schemas the OPTIONAL entries wrap, with
\* the verdict valid or invalid with the failing pair; the validator returns
\* a verdict, never an internal error, also for an empty tuple schema, a
\* schema that starts with an OPTIONAL, or an empty message tuple.
C16_OptionalItemsMatched ==
    (ret.op = "validate" /\ SCHEMA.k = "tuple" /\ msg.message.k = "tuple")
       => /\ ret.err \in {"", "InvalidMessage"}
          /\ ReachesOptionals(SCHEMA, msg.message)
                => validated(Message(msg.message), "validate",
                             OptionalVerdict(SCHEMA.v, msg.message.v,
                                             LeadRequired(SCHEMA.v, 1) + 1)).ret
                   = ret


\* an OPTIONAL entry of the tuple schema comes before a non-OPTIONAL one
OptionalBeforeRequired(schema) ==
    \E i, j \in 1..Len(schema) :
       i < j /\ optional(schema[i]) /\ required(schema[j])

\* C17: a tuple schema in which an OPTIONAL entry comes before a
\* non-OPTIONAL entry is rejected with InvalidSchema when the message class
\* that carries it is constructed.
C17_OptionalOrderRejected ==
    (cls # "class" /\ SCHEMA.k = "tuple" /\ OptionalBeforeRequired(SCHEMA.v))
       => cls = "InvalidSchema"


\* the sub-schemas of a dict schema that stand for a key of the message:
\* those of the exact or OPTIONAL key equal to it, else those of the
\* wildcard of its type
SelectedFor(schema, key) ==
    LET named == {i \in 1..Len(schema) :
                     /\ Bare(schema[i][1]).k # "type"
                     /\ PyEq(Bare(schema[i][1]), key)}
        typed == {i \in 1..Len(schema) : schema[i][1] = TypeV(TypeOf(key))}
    IN  {schema[i][2] : i \in IF named # {} THEN named ELSE typed}

\* C18: a dict message that validates against a dict schema holds every
\* non-OPTIONAL exact key of the schema, each of its keys that is neither an
\* exact nor an OPTIONAL key has a type the schema has a wildcard for, and
\* every value matches the sub-schema selected for its key.
C18_DictValidOnlyIf ==
    (SCHEMA.k = "dict" /\ msg.validation.ok)
       => /\ msg.message.k = "dict"
          /\ \A k \in ExactKeys(SCHEMA.v) : Among(k, MessageKeys(msg.message.v))
          /\ \A k \in WildKeys(SCHEMA.v, msg.message.v) :
                HasKey(SCHEMA.v, TypeV(TypeOf(k)))
          /\ \A i \in 1..Len(msg.message.v) :
                /\ SelectedFor(SCHEMA.v, msg.message.v[i][1]) # {}
                /\ \A s \in SelectedFor(SCHEMA.v, msg.message.v[i][1]) :
                      validate(s, msg.message.v[i][2]).ok

C18_ExactAndWildcard ==
    /\ ret.op = "validate"
    /\ ret.err = ""
    /\ SCHEMA.k = "dict"
    /\ msg.validation.ok
    /\ ExactKeys(SCHEMA.v) # {}
    /\ WildKeys(SCHEMA.v, msg.message.v) # {}


\* the value and the values nested in it
RECURSIVE SubValues(_)
SubValues(m) ==
    {m} \cup
    (IF m.k \in {"list", "tuple"}
     THEN UNION {SubValues(m.v[i]) : i \in 1..Len(m.v)}
     ELSE IF m.k = "dict"
     THEN UNION {SubValues(m.v[i][2]) : i \in 1..Len(m.v)}
     ELSE {})

\* the schema and the schemas nested in it
RECURSIVE SubSchemas(_)
SubSchemas(s) ==
    {s} \cup
    (IF s.k \in {"list", "tuple", "UNION"}
     THEN UNION {SubSchemas(Bare(s.v[i])) : i \in 1..Len(s.v)}
     ELSE IF s.k = "dict"
     THEN UNION {SubSchemas(s.v[i][2]) : i \in 1..Len(s.v)}
     ELSE {})

\* C19: when validation fails the error carries a pair (m', s') of a value
\* of the message and a schema of the schema that do not match; it is the
\* innermost failing pair, the one whose own validation names itself, and
\* under a UNION none of whose options match it is the message with the
\* UNION.
C19_FailingPair ==
    (ret.op \in {"validate", "transform", "dumps"} /\ ret.err = "InvalidMessage")
       => /\ Len(ret.v) = 2
          /\ ret.v[1] \in SubValues(msg.message)
          /\ ret.v[2] \in SubSchemas(SCHEMA)
          /\ validate(ret.v[2], ret.v[1]) = Invalid(ret.v[1], ret.v[2])
          /\ SCHEMA.k = "UNION" => ret.v = <<msg.message, SCHEMA>>

C19_NestedFailure ==
    /\ ret.op = "validate"
    /\ ret.err = "InvalidMessage"
    /\ SCHEMA.k \in {"tuple", "list", "dict"}
    /\ ret.v[1] # msg.message
    /\ ret.v[2] # SCHEMA


---------------------------------------------------------------------------
(* The previous generation of the encoder,                                  *)
(* src/python/oldmummy/serialization.py.  Its dumpers of lines 180-298 are  *)
(* those of serialization.py line for line and stand here under the same    *)
(* names; the type codes, the choice of a code, the decimal dumper, the     *)
(* table of dumpers and pure_python_dumps are its own.                      *)

TYPE_NONE == 0
TYPE_BOOL == 1
TYPE_CHAR == 2
TYPE_SHORT == 3
TYPE_INT == 4
TYPE_LONG == 5
TYPE_HUGE == 6
TYPE_DOUBLE == 7
TYPE_SHORTSTR == 8
TYPE_LONGSTR == 9
TYPE_SHORTUTF8 == 10
TYPE_LONGUTF8 == 11
TYPE_LIST == 12
TYPE_TUPLE == 13
TYPE_SET == 14
TYPE_DICT == 15
TYPE_SHORTLIST == 16
TYPE_SHORTTUPLE == 17
TYPE_SHORTSET == 18
TYPE_SHORTDICT == 19
TYPE_MEDLIST == 20
TYPE_MEDTUPLE == 21
TYPE_MEDSET == 22
TYPE_MEDDICT == 23
TYPE_MEDSTR == 24
TYPE_MEDUTF8 == 25
TYPE_DATE == 26
TYPE_TIME == 27
TYPE_DATETIME == 28
TYPE_TIMEDELTA == 29
TYPE_DECIMAL == 30

\* lines 105-145: the code for a size
old_by_size(n, short, med, long) ==
    IF n < 256 THEN short
    ELSE IF n < 65536 THEN med
    ELSE long

\* lines 147-156
old_get_type_code_int(x) ==
    IF IntLe(IntOf(0 - 128), x) /\ IntLt(x, IntOf(128)) THEN TYPE_CHAR
    ELSE IF IntLe(IntOf(0 - 32768), x) /\ IntLt(x, IntOf(32768))
    THEN TYPE_SHORT
    ELSE IF IntLe(IntNeg(Pow2(31)), x) /\ IntLt(x, Pow2(31)) THEN TYPE_INT
    ELSE IF IntLe(IntNeg(Pow2(63)), x) /\ IntLt(x, Pow2(63)) THEN TYPE_LONG
    ELSE TYPE_HUGE

\* lines 100-173
old_get_type_code(x) ==
    CASE x.k = "none" -> TYPE_NONE
      [] x.k = "bool" -> TYPE_BOOL
      [] x.k = "float" -> TYPE_DOUBLE
      [] x.k = "list" ->
            old_by_size(Len(x.v), TYPE_SHORTLIST, TYPE_MEDLIST, TYPE_LIST)
      [] x.k = "tuple" ->
            old_by_size(Len(x.v), TYPE_SHORTTUPLE, TYPE_MEDTUPLE, TYPE_TUPLE)
      [] x.k \in {"set", "frozenset"} ->
            old_by_size(Len(x.v), TYPE_SHORTSET, TYPE_MEDSET, TYPE_SET)
      [] x.k = "dict" ->
            old_by_size(Len(x.v), TYPE_SHORTDICT, TYPE_MEDDICT, TYPE_DICT)
      [] x.k = "bytes" ->
            old_by_size(Len(x.v), TYPE_SHORTSTR, TYPE_MEDSTR, TYPE_LONGSTR)
      [] x.k = "text" ->
            Only({old_by_size(n, TYPE_SHORTUTF8, TYPE_MEDUTF8, TYPE_LONGUTF8) :
                  n \in {Len(utf8_encode(x.v))}})
      [] x.k = "int" -> old_get_type_code_int(x.v)
      [] x.k = "date" -> TYPE_DATE
      [] x.k = "time" -> TYPE_TIME
      [] x.k = "datetime" -> TYPE_DATETIME
      [] x.k = "timedelta" -> TYPE_TIMEDELTA
      [] x.k = "decimal" -> TYPE_DECIMAL
      [] OTHER -> Unserializable

\* x.as_tuple()[0]: the sign of a Decimal
decimal_sign(x) == IF x.special = "-Infinity" THEN 1 ELSE x.sign

\* lines 307-317: the flags byte; as_tuple gives the exponent "n" for a
\* NaN, "N" for an sNaN and "F" for an infinity
old_decimal_flags(x) ==
    (IF x.special # "" THEN 1 ELSE 0)
    + 2 * decimal_sign(x)
    + (IF x.special \in {"Infinity", "-Infinity"} THEN 4
       ELSE IF x.special = "sNaN" THEN 8 ELSE 0)

\* lines 305-331
old_dump_decimal(x) ==
    LET digits == x.digits
        n == Len(digits)
        digitpairs == [j \in 1..((n + 1) \div 2) |->
                         16 * digits[2 * j - 1]
                         + (IF 2 * j <= n THEN digits[2 * j] ELSE 0)]
    IN  IF x.special # "" THEN dump_char(old_decimal_flags(x))
        ELSE IF \E i \in 1..n : digits[i] < 0 \/ digits[i] > 9
        THEN Err("ValueError: invalid digit")
        ELSE Cat(pack_unsigned(old_decimal_flags(x), 1),
             Cat(pack_signed(x.expo, 2),
             Cat(pack_unsigned(n, 2), Ok(digitpairs))))

\* _dumpers[kind](item), lines 334-366, for the kinds that do not recurse
old_dump_leaf(kind, x) ==
    CASE kind = TYPE_NONE -> Ok(<<>>)
      [] kind = TYPE_BOOL -> Ok(IF x.v THEN <<1>> ELSE <<0>>)
      [] kind = TYPE_CHAR -> dump_char(ToModelInt(x.v))
      [] kind = TYPE_SHORT -> pack_int(x.v, 2)
      [] kind = TYPE_INT -> pack_int(x.v, 4)
      [] kind = TYPE_LONG -> pack_int(x.v, 8)
      [] kind = TYPE_HUGE -> dump_huge(x.v)
      [] kind = TYPE_DOUBLE -> Ok(x.v)
      [] kind = TYPE_SHORTSTR -> dump_shortstr(x.v)
      [] kind = TYPE_MEDSTR -> dump_medstr(x.v)
      [] kind = TYPE_LONGSTR -> dump_longstr(x.v)
      [] kind = TYPE_SHORTUTF8 -> dump_shortstr(utf8_encode(x.v))
      [] kind = TYPE_MEDUTF8 -> dump_medstr(utf8_encode(x.v))
      [] kind = TYPE_LONGUTF8 -> dump_longstr(utf8_encode(x.v))
      [] kind = TYPE_DATE -> dump_date(x.v)
      [] kind = TYPE_TIME -> dump_time(x.v)
      [] kind = TYPE_DATETIME -> dump_datetime(x.v)
      [] kind = TYPE_TIMEDELTA -> dump_timedelta(x.v)
      [] kind = TYPE_DECIMAL -> old_dump_decimal(x.v)

OldShortKinds == {TYPE_SHORTLIST, TYPE_SHORTTUPLE, TYPE_SHORTSET, TYPE_SHORTDICT}

OldMedKinds == {TYPE_MEDLIST, TYPE_MEDTUPLE, TYPE_MEDSET, TYPE_MEDDICT}

OldLongKinds == {TYPE_LIST, TYPE_TUPLE, TYPE_SET, TYPE_DICT}

\* len(x) as the container's dumper writes it, lines 249-283
old_dump_count(kind, x) ==
    IF kind \in OldShortKinds THEN dump_uchar(Len(x.v))
    ELSE IF kind \in OldMedKinds THEN dump_ushort(Len(x.v))
    ELSE dump_uint(Len(x.v))

\* a generation that never compresses
old_finish_plain(kind, body, compress, lzfOn) == <<kind>> \o body

\* lines 382-390: the payload of a value whose data is body
old_finish(kind, body, compress, lzfOn) ==
    Only({IF compressed # <<>>
          THEN <<kind + 128>> \o pack_signed(Len(body), 4).b \o compressed
          ELSE <<kind>> \o body :
          compressed \in {IF compress /\ lzfOn /\ Len(body) > 5
                          THEN lzf_compress(body, Len(body) - 5)
                          ELSE <<>>}})

OldEntered(st, err, kind, body) ==
    [st |-> st, err |-> err, kind |-> kind, data |-> body]

\* pure_python_dumps(h[id], None, depth, ...), lines 368-381, up to the
\* dumper's first recursive call: the call raises, returns the body of a
\* value that holds no other, or starts a container with its count written
old_dumps_enter(h, id, depth) ==
    IF depth >= MAX_DEPTH THEN OldEntered("raise", DepthError, 0, <<>>)
    ELSE Only({
        IF kind = Unserializable
        THEN OldEntered("raise", "TypeError: unserializable type", 0, <<>>)
        ELSE Only({IF ~body.ok THEN OldEntered("raise", body.err, kind, <<>>)
                   ELSE OldEntered(IF h[id].k \in ContainerKinds THEN "push"
                                   ELSE "leaf", "", kind, body.b) :
                   body \in {IF h[id].k \in ContainerKinds
                             THEN old_dump_count(kind, h[id])
                             ELSE old_dump_leaf(kind, h[id])}}) :
        kind \in {old_get_type_code(h[id])}})

---------------------------------------------------------------------------
(* Both generations at work on one value (tests.py:70-75): dumps of the     *)
(* current encoder step by step, then oldmummy's; for the values too large  *)
(* to dump here, the type code each generation chooses.                     *)

\* the most bytes, characters, items or pairs of a value that is dumped
DumpLimit == 1024

Sized(x) ==
    IF x.k \in ContainerKinds \cup {"bytes", "text"} THEN Len(x.v) ELSE 0

\* the sizes on both sides of the limits of the short and the medium class
CompatSizes == {256 - 1, 256, 65536 - 1, 65536}

CompatPool ==
    HeapPool \cup {<<x>> : x \in LeafPool}
    \cup UNION {SizedHeaps(n) : n \in CompatSizes}

InitCompat ==
    /\ scen = "compat"
    /\ heap \in CompatPool
    /\ root = 1
    /\ dflt = "none"
    /\ lzf \in BOOLEAN
    /\ pc = IF Sized(heap[root]) > DumpLimit THEN "sized" ELSE "start"
    /\ estk = <<>>
    /\ out = NoResult
    /\ dlog = <<>>
    /\ tcode = Unserializable
    /\ wire = <<>>
    /\ via = NoVia
    /\ dstk = <<>>
    /\ data = <<>>
    /\ oheap = <<>>
    /\ dec = NotLoaded
    /\ dec0 = NoPrior
    /\ SCHEMA = NoneV
    /\ cls = ""
    /\ msg = NoMessage
    /\ ret = NoCall

OldReturned(b) == Call("oldmummy.dumps", NoneV, b, "")

OldRaised(e) == Call("oldmummy.dumps", NoneV, <<>>, e)

\* oldmummy.dumps(heap[root]), once mummy.dumps(heap[root]) has ended: the
\* outermost call of its pure_python_dumps
OldDumpsCall ==
    /\ scen = "compat"
    /\ pc = "dumped"
    /\ \E r \in {old_dumps_enter(heap, root, 0)} :
           /\ estk' = IF r.st = "push"
                      THEN <<Frame(root, r.kind, 0, Children(heap[root]),
                                   r.data, TRUE)>>
                      ELSE <<>>
           /\ pc' = IF r.st = "push" THEN "olddumping" ELSE "compared"
           /\ ret' = IF r.st = "push" THEN ret
                     ELSE IF r.st = "raise" THEN OldRaised(r.err)
                     ELSE OldReturned(old_finish(r.kind, r.data, TRUE, lzf))
    /\ UNCHANGED <<SCHEMA, cls, msg>>
    /\ UNCHANGED <<scen, heap, root, dflt, lzf, out, dlog, tcode, wire, via,
                   dstk, data, oheap, dec, dec0>>

\* a container's dumper calls pure_python_dumps for its next item, with
\* compress=0
OldDumpsChild ==
    /\ pc = "olddumping"
    /\ Top(estk).i <= Len(Top(estk).kids)
    /\ \E top \in {Top(estk)} :
       \E r \in {old_dumps_enter(heap, top.kids[top.i], top.depth + 1)} :
           /\ estk' = IF r.st = "raise" THEN <<>>
                      ELSE IF r.st = "leaf"
                      THEN SetTop(estk, Joined(top, old_finish(r.kind, r.data,
                                                               FALSE, lzf),
                                               <<>>))
                      ELSE Append(estk, Frame(top.kids[top.i], r.kind,
                                              top.depth + 1,
                                              Children(heap[top.kids[top.i]]),
                                              r.data, FALSE))
           /\ pc' = IF r.st = "raise" THEN "compared" ELSE "olddumping"
           /\ ret' = IF r.st = "raise" THEN OldRaised(r.err) ELSE ret
    /\ UNCHANGED <<SCHEMA, cls, msg>>
    /\ UNCHANGED <<scen, heap, root, dflt, lzf, out, dlog, tcode, wire, via,
                   dstk, data, oheap, dec, dec0>>

\* a container's dumper has joined its items: pure_python_dumps returns
OldDumpsReturn ==
    /\ pc = "olddumping"
    /\ Top(estk).i > Len(Top(estk).kids)
    /\ \E top \in {Top(estk)} :
       \E p \in {old_finish(top.kind, top.acc, top.compress, lzf)} :
           IF Len(estk) = 1
           THEN /\ estk' = <<>>
                /\ pc' = "compared"
                /\ ret' = OldReturned(p)
           ELSE /\ estk' = SetTop(Pop(estk),
                                  Joined(estk[Len(estk) - 1], p, top.marks))
                /\ pc' = "olddumping"
                /\ ret' = ret
    /\ UNCHANGED <<SCHEMA, cls, msg>>
    /\ UNCHANGED <<scen, heap, root, dflt, lzf, out, dlog, tcode, wire, via,
                   dstk, data, oheap, dec, dec0>>

\* _get_type_code(heap[root]) of either generation
TypeCodes ==
    /\ scen = "compat"
    /\ pc = "sized"
    /\ tcode' = get_type_code(heap[root])
    /\ ret' = Call("oldmummy._get_type_code", NoneV,
                   old_get_type_code(heap[root]), "")
    /\ pc' = "coded"
    /\ UNCHANGED <<SCHEMA, cls, msg>>
    /\ UNCHANGED <<scen, heap, root, dflt, lzf, estk, out, dlog, wire, via,
                   dstk, data, oheap, dec, dec0>>

NextCompat ==
    \/ DumpsCall
    \/ DumpsChild
    \/ DumpsReturn
    \/ OldDumpsCall
    \/ OldDumpsChild
    \/ OldDumpsReturn
    \/ TypeCodes

SpecCompat == InitCompat /\ [][NextCompat]_vars

\* a Decimal is among the objects of the heap
HoldsDecimal(h) == \E i \in 1..Len(h) : h[i].k = "decimal"

\* C20: for every supported value that holds no Decimal the current encoder
\* and the previous generation's give the same payload, byte for byte, and
\* end alike when they raise; the type codes they choose are the same in
\* every class of sizes.
C20_SamePayload ==
    (scen = "compat" /\ ~HoldsDecimal(heap))
       => /\ pc = "compared"
                => /\ out.ok <=> ret.err = ""
                   /\ out.b = ret.v
                   /\ out.err = ret.err
          /\ pc = "coded" => ret.v = tcode

C20_MediumCompared ==
    /\ scen = "compat"
    /\ pc = "compared"
    /\ ~HoldsDecimal(heap)
    /\ out.ok
    /\ out.b = ret.v
    /\ Sized(heap[root]) >= 256
    /\ out.tag \in MedKinds

---------------------------------------------------------------------------
(* oldmummy's Decimal, dumped and loaded again                              *)
(* (src/python/oldmummy/serialization.py:305-331 and 574-601;               *)
(* tests.py:60-68 run for OldMummyTests)                                    *)

\* _load_decimal(x), lines 574-601: the flags byte, then for a finite number
\* the exponent, the count of digits and the digits two to a byte, the high
\* nibble first; a last digit of zero is popped
old_load_decimal(x) ==
    IF x = <<>> THEN LoadErr("IndexError")
    ELSE LET flags == x[1]
         IN  IF flags % 2 = 1
             THEN IF (flags \div 4) % 2 = 1
                  THEN Loaded(DecimalV(IF (flags \div 2) % 2 = 1
                                       THEN "-Infinity" ELSE "Infinity",
                                       0, <<>>, 0), 1)
                  ELSE Loaded(DecimalV(IF (flags \div 8) % 2 = 1
                                       THEN "sNaN" ELSE "NaN", 0, <<>>, 0), 1)
             ELSE IF Len(x) < 5 THEN LoadErr("struct.error")
             ELSE LET sign == (flags \div 2) % 2
                      exponent == be_signed(Slice(x, 1, 3))
                      length == be_value(Slice(x, 3, 5))
                      width == 5 + (length \div 2) + (length % 2)
                      digitbytes == Slice(x, 5, width)
                      all == [j \in 1..(2 * Len(digitbytes)) |->
                                IF j % 2 = 1
                                THEN digitbytes[(j + 1) \div 2] \div 16
                                ELSE digitbytes[j \div 2] % 16]
                      digits == IF all[Len(all)] = 0
                                THEN SubSeq(all, 1, Len(all) - 1)
                                ELSE all
                  IN  IF all = <<>> THEN LoadErr("IndexError")
                      ELSE IF \E j \in 1..Len(digits) : digits[j] > 9
                      THEN LoadErr("ValueError: decimal digit")
                      ELSE Loaded(DecimalV("", sign, StripZeros(digits),
                                           exponent), width)

\* pure_python_loads(w) of oldmummy, lines 642-652, for the payload of a
\* value that holds no other
old_loads(w, lzfOn) ==
    LET d == loads_unwrap(w, lzfOn)
    IN  IF ~d.ok THEN LoadErr(d.err)
        ELSE IF d.b[1] = TYPE_DECIMAL
        THEN old_load_decimal(SliceFrom(d.b, 1))
        ELSE load_leaf(d.b[1], SliceFrom(d.b, 1))

\* the most digits of a Decimal of the pool
MaxDigits == 4

RECURSIVE DigitSeqs(_)
DigitSeqs(n) ==
    IF n = 0 THEN {<<>>}
    ELSE {Append(s, d) : s \in DigitSeqs(n - 1), d \in {0, 1, 9}}

\* as_tuple() of a finite Decimal: no leading zero but in a zero
DecimalDigits ==
    {s \in UNION {DigitSeqs(n) : n \in 1..MaxDigits} : Len(s) = 1 \/ s[1] # 0}

\* tests.py:187-194 and their neighbours: both signs, exponents up to the
\* limits of the 16 bits they are packed in, digits of odd and even count
DecimalPool ==
    {DecimalV("", s, ds, e) :
         s \in {0, 1}, ds \in DecimalDigits, e \in {0 - 32768, 0 - 4, 0, 32767}}
    \cup {DecimalV("NaN", 0, <<>>, 0), DecimalV("sNaN", 0, <<>>, 0),
          DecimalV("Infinity", 0, <<>>, 0), DecimalV("-Infinity", 0, <<>>, 0)}

InitOldDecimal ==
    /\ scen = "olddecimal"
    /\ heap \in {<<d>> : d \in DecimalPool}
    /\ root = 1
    /\ dflt = "none"
    /\ lzf \in BOOLEAN
    /\ pc = "start"
    /\ estk = <<>>
    /\ out = NoResult
    /\ dlog = <<>>
    /\ tcode = Unserializable
    /\ wire = <<>>
    /\ via = NoVia
    /\ dstk = <<>>
    /\ data = <<>>
    /\ oheap = <<>>
    /\ dec = NotLoaded
    /\ dec0 = NoPrior
    /\ SCHEMA = NoneV
    /\ cls = ""
    /\ msg = NoMessage
    /\ ret = NoCall

\* encoded = oldmummy.pure_python_dumps(val), tests.py:61
OldDecimalDumps ==
    /\ scen = "olddecimal"
    /\ pc = "start"
    /\ \E r \in {old_dumps_enter(heap, root, 0)} :
           ret' = IF r.st = "raise" THEN OldRaised(r.err)
                  ELSE OldReturned(old_finish(r.kind, r.data, TRUE, lzf))
    /\ pc' = "dumped"
    /\ UNCHANGED <<SCHEMA, cls, msg>>
    /\ UNCHANGED <<scen, heap, root, dflt, lzf, estk, out, dlog, tcode, wire,
                   via, dstk, data, oheap, dec, dec0>>

\* finished = oldmummy.pure_python_loads(encoded), tests.py:62
OldDecimalLoads ==
    /\ scen = "olddecimal"
    /\ pc = "dumped"
    /\ ret.err = ""
    /\ wire' = ret.v
    /\ \E l \in {old_loads(ret.v, lzf)} :
           /\ oheap' = IF l.ok THEN <<l.v>> ELSE <<>>
           /\ dec' = IF l.ok THEN LoadsReturned(1) ELSE LoadsRaised(l.err)
    /\ pc' = "loaded"
    /\ UNCHANGED <<SCHEMA, cls, msg, ret>>
    /\ UNCHANGED <<scen, heap, root, dflt, lzf, estk, out, dlog, tcode, via,
                   dstk, data>>
    /\ UNCHANGED dec0

NextOldDecimal ==
    \/ OldDecimalDumps
    \/ OldDecimalLoads

SpecOldDecimal == InitOldDecimal /\ [][NextOldDecimal]_vars

\* C21: in the previous generation every Decimal that was dumped is loaded
\* back with the sign, the digits and the exponent it had, and the special
\* decimals are loaded back as themselves.
C21_OldDecimalRoundTrip ==
    (scen = "olddecimal" /\ pc = "loaded")
        => dec = LoadsReturned(1) /\ oheap = heap

---------------------------------------------------------------------------
(* Properties of the schema object and of the cached results *)

\* a dict schema in s has an OPTIONAL key, whose wrapped key update() stores
RECURSIVE HasOptionalKey(_)
HasOptionalKey(s) ==
    IF s.k = "dict"
    THEN \/ schema_update(s.v) # s.v
         \/ \E i \in 1..Len(s.v) : HasOptionalKey(s.v[i][2])
    ELSE IF s.k \in {"list", "tuple", "UNION"}
    THEN \E i \in 1..Len(s.v) : HasOptionalKey(s.v[i])
    ELSE FALSE

\* C22: no call of validate, transform, dumps, untransform or loads changes
\* the schema of the class, nested dict schemas and their OPTIONAL keys
\* included: the schema stays what it was when the class was defined.
C22_SchemaUntouched == [][cls = "defined" => SCHEMA' = SCHEMA]_vars

C22_NestedOptionalUsed ==
    /\ cls = "defined"
    /\ ret.op = "untransform"
    /\ ret.err = ""
    /\ SCHEMA.k = "dict"
    /\ \E i \in 1..Len(SCHEMA.v) :
          SCHEMA.v[i][2].k = "dict" /\ HasOptionalKey(SCHEMA.v[i][2])
    /\ msg.validation = Valid

---------------------------------------------------------------------------
(* Properties of the integers on the wire *)

\* dumps has returned the payload of the huge integer heap[root]
HugeDumped ==
    /\ scen = "codec"
    /\ pc = "dumped"
    /\ out.ok
    /\ heap[root].k = "int"
    /\ out.tag = MUMMY_TYPE_HUGE

\* the bytes of a huge's body after its 4-byte count
HugeBody == SliceFrom(out.body, 4)

\* the byte a two's-complement number is extended with
SignByte(bs) == IF bs[1] >= 128 THEN 255 ELSE 0

IntLoaded ==
    /\ scen = "codec"
    /\ pc = "loaded"
    /\ via.how = "asis"
    /\ heap[root].k = "int"
    /\ out.ok

---------------------------------------------------------------------------
(* Properties of the parser inside a container *)

\* a list or tuple whose items hold no other value went through dumps, and
\* its payload is what loads is given
FlatSequence ==
    /\ scen = "codec"
    /\ via.how = "asis"
    /\ dlog = <<>>
    /\ out.ok
    /\ heap[root].k \in SeqKinds
    /\ \A j \in 1..Len(heap[root].v) :
           heap[heap[root].v[j]].k \notin ContainerKinds

\* C25: inside a container the parser returns each element as it was dumped,
\* whatever bytes follow it, and reports the bytes the element took, so
\* that the next element is read from the position of its tag.
C25_ElementsIndependent ==
    FlatSequence
        => /\ (pc = "loading" /\ Top(dstk).i < Top(dstk).n)
                  => Top(dstk).xoff + Top(dstk).width
                         = out.marks[Top(dstk).i + 1]
           /\ pc = "loading"
                  => \A j \in 1..Top(dstk).i :
                         oheap[1 + j] = heap[heap[root].v[j]]
           /\ pc = "loaded"
                  => /\ dec.ok
                     /\ Len(oheap[dec.v].v) = Len(heap[root].v)
                     /\ \A j \in 1..Len(heap[root].v) :
                            oheap[oheap[dec.v].v[j]] = heap[heap[root].v[j]]

---------------------------------------------------------------------------
(* Properties of the keys of a dict message *)

\* a dict message, valid under the dict schema of its class, has keys that
\* only a type key of the schema stands for
WildcardMatched ==
    /\ cls = "defined"
    /\ SCHEMA.k = "dict"
    /\ msg.message.k = "dict"
    /\ msg.validation = Valid
    /\ WildKeys(SCHEMA.v, msg.message.v) # {}

\* the sub-schema the schema holds under the type of the key
UnderKeyType(schema, key) == Lookup(schema, TypeV(TypeOf(key)))

\* C26: for a key of the message matched by a type key, transform and
\* untransform use the sub-schema validate used, the one under the type of
\* the key: on a valid message transform raises nothing and puts the value
\* transformed under that sub-schema after the key, and untransform brings
\* the key back with the value untransformed under it.
C26_WildcardSameSchema ==
    WildcardMatched
        => /\ ret.op = "transform"
                => /\ ret.err = ""
                   /\ ret.v.k = "list"
                   /\ \A k \in WildKeys(SCHEMA.v, msg.message.v) :
                         \E p \in 1..(Len(ret.v.v) - 1) :
                            /\ ret.v.v[p] = k
                            /\ Done(ret.v.v[p + 1])
                                  = transform(UnderKeyType(SCHEMA.v, k),
                                              Lookup(msg.message.v, k))
           /\ ret.op = "untransform"
                => /\ ret.err = ""
                   /\ ret.v.k = "dict"
                   /\ \A k \in WildKeys(SCHEMA.v, msg.message.v) :
                         /\ HasKey(ret.v.v, k)
                         /\ Done(Lookup(ret.v.v, k))
                               = untransform(UnderKeyType(SCHEMA.v, k),
                                     transform(UnderKeyType(SCHEMA.v, k),
                                               Lookup(msg.message.v, k)).v)

---------------------------------------------------------------------------
(* Properties of the results a wrapper caches *)

\* validate, transform or dumps was the last call on the wrapper
WrapperCalled ==
    /\ cls = "defined"
    /\ ret.op \in {"validate", "transform", "dumps"}

\* _validate returns a verdict on the wrapper's message
Decided == validate(SCHEMA, msg.message).err = ""

---------------------------------------------------------------------------
(* The first codec, src/mummy/__init__.py: tags 0x00 to 0x13 only.  Its     *)
(* type codes carry the numbers oldmummy gives the same names, and its      *)
(* dumpers and loaders of the kinds that hold no other value read as those  *)
(* of python/mummy/serialization.py do.                                     *)

\* the value whose objects are h[id..], as a tree
RECURSIVE TreeOf(_, _)
TreeOf(h, id) ==
    IF h[id].k = "dict"
    THEN DictV([j \in 1..Len(h[id].v) |->
                    <<TreeOf(h, h[id].v[j][1]), TreeOf(h, h[id].v[j][2])>>])
    ELSE IF h[id].k \in SeqKinds
    THEN Node(h[id].k, [j \in 1..Len(h[id].v) |-> TreeOf(h, h[id].v[j])])
    ELSE h[id]

\* _get_type_code(x), __init__.py:151-197; Unserializable for the ValueError
legacy_get_type_code(x) ==
    CASE x.k = "none" -> TYPE_NONE
      [] x.k = "bool" -> TYPE_BOOL
      [] x.k = "float" -> TYPE_DOUBLE
      [] x.k = "list" ->
            IF Len(x.v) < 256 THEN TYPE_SHORTLIST ELSE TYPE_LIST
      [] x.k = "tuple" ->
            IF Len(x.v) < 256 THEN TYPE_SHORTTUPLE ELSE TYPE_TUPLE
      [] x.k = "set" ->
            IF Len(x.v) < 256 THEN TYPE_SHORTSET ELSE TYPE_SET
      [] x.k = "dict" ->
            IF Len(x.v) < 256 THEN TYPE_SHORTDICT ELSE TYPE_DICT
      [] x.k = "bytes" ->
            IF Len(x.v) < 256 THEN TYPE_SHORTSTR ELSE TYPE_LONGSTR
      [] x.k = "text" ->
            IF Len(utf8_encode(x.v)) < 256 THEN TYPE_SHORTUTF8
            ELSE TYPE_LONGUTF8
      [] x.k = "int" -> old_get_type_code_int(x.v)
      [] OTHER -> Unserializable

LegacyShortKinds ==
    {TYPE_SHORTLIST, TYPE_SHORTTUPLE, TYPE_SHORTSET, TYPE_SHORTDICT}

LegacyContainerKinds ==
    {TYPE_LIST, TYPE_TUPLE, TYPE_SET, TYPE_DICT} \cup LegacyShortKinds

LegacyLeafKinds ==
    {TYPE_NONE, TYPE_BOOL, TYPE_CHAR, TYPE_SHORT, TYPE_INT, TYPE_LONG,
     TYPE_HUGE, TYPE_DOUBLE, TYPE_SHORTSTR, TYPE_LONGSTR, TYPE_SHORTUTF8,
     TYPE_LONGUTF8}

RECURSIVE legacy_dumps(_, _, _, _)
RECURSIVE legacy_dump_items(_, _, _, _, _)

\* the join of lines 264-286: the payloads of items[i..] after acc
legacy_dump_items(items, i, depth, lzfOn, acc) ==
    IF ~acc.ok \/ i > Len(items) THEN acc
    ELSE Only({IF ~p.ok THEN p
               ELSE legacy_dump_items(items, i + 1, depth, lzfOn, Cat(acc, p)) :
               p \in {legacy_dumps(items[i], depth, FALSE, lzfOn)}})

\* pure_python_dumps(x, None, depth, compress), __init__.py:311-331, with
\* the dumpers of lines 204-286: the short kinds write len(x) in one byte,
\* the others in four
legacy_dumps(x, depth, compress, lzfOn) ==
    IF depth >= MAX_DEPTH THEN Err("ValueError: max depth exceeded")
    ELSE Only({
        IF kind = Unserializable
        THEN Err("TypeError: 'NoneType' object is not callable")
        ELSE Only({IF ~body.ok THEN body
                   ELSE Ok(old_finish(kind, body.b, compress, lzfOn)) :
                   body \in {IF kind \in LegacyShortKinds
                             THEN legacy_dump_items(Flat(x), 1, depth + 1, lzfOn,
                                                    dump_uchar(Len(x.v)))
                             ELSE IF kind \in LegacyContainerKinds
                             THEN legacy_dump_items(Flat(x), 1, depth + 1, lzfOn,
                                                    dump_uint(Len(x.v)))
                             ELSE old_dump_leaf(kind, x)}}) :
        kind \in {legacy_get_type_code(x)}})

\* the length a container's loader reads first, __init__.py:398-452:
\* _load_shortlist and _load_shortdict read a byte, _load_shorttuple goes
\* through _load_shortlist; _load_shortset goes through _load_list, which
\* reads four bytes as the loaders of the long kinds do
legacy_load_count(kind, x) ==
    IF kind \in {TYPE_SHORTLIST, TYPE_SHORTTUPLE, TYPE_SHORTDICT}
    THEN load_uchar(x)
    ELSE load_uint(x)

RECURSIVE legacy_loads_at(_, _)
RECURSIVE legacy_load_items(_, _, _, _, _, _)

\* the loop of a container's loader with n items to read, those of acc
\* read already; x begins at d[xoff] and width bytes of it are used
legacy_load_items(d, kind, n, xoff, width, acc) ==
    IF Len(acc) >= n THEN built_tree(kind, acc, width)
    ELSE Only({IF ~c.ok THEN c
               ELSE legacy_load_items(d, kind, n, xoff, width + c.w + 1,
                                      Append(acc, c.v)) :
               c \in {legacy_loads_at(d, xoff + width)}})

\* _loads(d[pos:]), __init__.py:477-479, with _loaders of lines 454-475
legacy_loads_at(d, pos) ==
    IF pos >= Len(d) THEN LoadErr("IndexError")
    ELSE Only({
        IF kind \in LegacyLeafKinds THEN load_leaf(kind, SliceFrom(d, pos + 1))
        ELSE IF kind \in LegacyContainerKinds
        THEN Only({IF ~c.ok THEN c
                   ELSE legacy_load_items(d, kind,
                            IF kind \in {TYPE_DICT, TYPE_SHORTDICT}
                            THEN 2 * c.v ELSE c.v,
                            pos + 1, c.w, <<>>) :
                   c \in {legacy_load_count(kind, SliceFrom(d, pos + 1))}})
        ELSE LoadErr("KeyError") :
        kind \in {load_char(SliceFrom(d, pos)).v}})

\* pure_python_loads(w), __init__.py:481-492
legacy_loads(w, lzfOn) ==
    Only({IF ~u.ok THEN LoadErr(u.err) ELSE legacy_loads_at(u.b, 0) :
          u \in {loads_unwrap(w, lzfOn)}})

\* the most items of a container of the pool
MaxItems == 2

\* no two of them equal
LegacyElements ==
    {NoneV, BoolV(TRUE), IntV(IntOf(2)), IntV(IntOf(0 - 1)),
     IntV(IntOf(300)), BytesV(<<97>>)}

\* the sequences of at most MaxItems of the elements
LegacyItems ==
    UNION {[1..n -> LegacyElements] : n \in 0..MaxItems}

\* sets in every order of iteration, and lists and tuples beside them
LegacyPool ==
    {SetV(s) : s \in {t \in LegacyItems :
                        \A i, j \in 1..Len(t) : t[i] = t[j] => i = j}}
    \cup {ListV(s) : s \in LegacyItems}
    \cup {TupleV(s) : s \in LegacyItems}

InitLegacy ==
    /\ scen = "legacy"
    /\ heap \in {TreeHeap(t, 0) : t \in LegacyPool}
    /\ root = 1
    /\ dflt = "none"
    /\ lzf \in BOOLEAN
    /\ pc = "start"
    /\ estk = <<>>
    /\ out = NoResult
    /\ dlog = <<>>
    /\ tcode = Unserializable
    /\ wire = <<>>
    /\ via = NoVia
    /\ dstk = <<>>
    /\ data = <<>>
    /\ oheap = <<>>
    /\ dec = NotLoaded
    /\ dec0 = NoPrior
    /\ SCHEMA = NoneV
    /\ cls = ""
    /\ msg = NoMessage
    /\ ret = NoCall

\* mummy.pure_python_dumps(value), __init__.py:311
LegacyDumps ==
    /\ scen = "legacy"
    /\ pc = "start"
    /\ \E r \in {legacy_dumps(TreeOf(heap, root), 0, TRUE, lzf)} :
           ret' = Call("mummy.dumps", NoneV, r.b, r.err)
    /\ pc' = "dumped"
    /\ UNCHANGED <<SCHEMA, cls, msg>>
    /\ UNCHANGED <<scen, heap, root, dflt, lzf, estk, out, dlog, tcode, wire,
                   via, dstk, data, oheap, dec, dec0>>

\* mummy.pure_python_loads(payload), __init__.py:481
LegacyLoads ==
    /\ scen = "legacy"
    /\ pc = "dumped"
    /\ ret.err = ""
    /\ wire' = ret.v
    /\ \E l \in {legacy_loads(ret.v, lzf)} :
           /\ oheap' = IF l.ok THEN TreeHeap(l.v, 0) ELSE <<>>
           /\ dec' = IF l.ok THEN LoadsReturned(1) ELSE LoadsRaised(l.err)
    /\ pc' = "loaded"
    /\ UNCHANGED <<SCHEMA, cls, msg, ret>>
    /\ UNCHANGED <<scen, heap, root, dflt, lzf, estk, out, dlog, tcode, via,
                   dstk, data>>
    /\ UNCHANGED dec0

NextLegacy ==
    \/ LegacyDumps
    \/ LegacyLoads

SpecLegacy == InitLegacy /\ [][NextLegacy]_vars

\* C28: a set of fewer than 256 items is written under tag 0x12 by the
\* first codec, and loading the payload gives the set back.
C28_ShortSetRoundTrip ==
    (scen = "legacy" /\ pc = "loaded" /\ heap[root].k = "set")
        => /\ ret.v[1] % 128 = TYPE_SHORTSET
           /\ dec = LoadsReturned(1)
           /\ oheap = heap

---------------------------------------------------------------------------
(* OPTIONAL keys through transform and untransform *)

\* the keys a dict schema names under OPTIONAL, type keys aside
NamedOptionalKeys(schema) == {k \in OptionalKeys(schema) : k.k # "type"}

\* untransform has returned a dict for the transformation of a valid dict
\* message of a class with a dict schema
DictUntransformed ==
    /\ cls = "defined"
    /\ SCHEMA.k = "dict"
    /\ msg.message.k = "dict"
    /\ msg.validation = Valid
    /\ ret.op = "untransform"
    /\ ret.err = ""
    /\ ret.v.k = "dict"

\* C29: an OPTIONAL key present in a valid dict message is present with the
\* same value in untransform(transform(m)), None included; an OPTIONAL key
\* is absent from the result only when the message left it out.
C29_OptionalKeySurvives ==
    DictUntransformed
        => \A k \in NamedOptionalKeys(SCHEMA.v) :
              /\ HasKey(ret.v.v, k) <=> HasKey(msg.message.v, k)
              /\ HasKey(msg.message.v, k)
                    => /\ HasKey(ret.v.v, k)
                       /\ Lookup(ret.v.v, k) = Lookup(msg.message.v, k)

---------------------------------------------------------------------------
(* Type keys that are not OPTIONAL *)

\* the type keys of the dict schema outside OPTIONAL that no key of the
\* message has as its very type
UnmetTypeKeys(schema, message) ==
    {w \in NonOptionalKeys(schema) :
        /\ IsPrimitive(w)
        /\ \A k \in MessageKeys(message) : TypeOf(k) # w.v}

\* the keys the dict schema names outside OPTIONAL, each with its value in
\* the message matching
ExactKeysMatch(schema, message) ==
    \A k \in ExactKeys(schema) :
        /\ HasKey(message, k)
        /\ validate(Lookup(schema, k), Lookup(message, k)) = Valid

\* C30: a type key outside OPTIONAL is a requirement: a dict message none
\* of whose keys has exactly that type is rejected, whatever its other
\* keys match.
C30_TypeKeyRequired ==
    (/\ WrapperCalled
     /\ SCHEMA.k = "dict"
     /\ msg.message.k = "dict"
     /\ UnmetTypeKeys(SCHEMA.v, msg.message.v) # {})
        => /\ ~msg.validation.ok
           /\ msg.validation.err = ""
           /\ validate(SCHEMA, msg.message) = Invalid(msg.message, SCHEMA)
           /\ ret.err = "InvalidMessage"

\* the message holds every named key with a matching value, and a bool key
\* beside them where the schema asks for an int key
C30_NamedKeysMatchedStillRejected ==
    /\ WrapperCalled
    /\ SCHEMA.k = "dict"
    /\ msg.message.k = "dict"
    /\ ExactKeys(SCHEMA.v) # {}
    /\ ExactKeysMatch(SCHEMA.v, msg.message.v)
    /\ TInt \in UnmetTypeKeys(SCHEMA.v, msg.message.v)
    /\ \E k \in MessageKeys(msg.message.v) : k.k = "bool"
    /\ ~msg.validation.ok
    /\ ret.err = "InvalidMessage"

====
